---- MODULE Spec2Model ----
(***************************************************************************)
(* Model of the Bulk Invoice Extractor's extraction and validation engine: *)
(* the formatter's field sanitizer, the duplicate detector, the invoice    *)
(* validator, the process-pdfs pipeline and the renderer's review/export   *)
(* workflow.                                                               *)
(*                                                                         *)
(* A JavaScript string is a sequence of one-character tokens.  The tokens  *)
(* "TAB", "CR" and "NUL" stand for the characters \t, \r and \x00.         *)
(***************************************************************************)
EXTENDS Integers, Sequences, FiniteSets, TLC

VARIABLES
  \* TemplateFormatter.sanitizeField, applied once and then to its own result
  value, sanitized, resanitized, sanPc,
  \* DuplicateDetector: its two maps; the invoices fingerprinted into
  \* seenInvoices since it was last cleared (history); the last call made on
  \* the detector with its argument and result; the batch under test
  seenInvoices, hashCache, tracked, lastCall, batch,
  \* InvoiceValidator.validateInvoice: the record given and the result
  valInvoice, valResult, valPc,
  \* ipcMain 'process-pdfs': the paths submitted, the handler's position,
  \* the metadata loadPDFs returned, the loop position, the handler's two
  \* lists and its return value; PDFProcessor.processingStatus.errors and
  \* OCREngine.worker
  filePaths, ppPc, metadata, ppIndex, extractedInvoices, ppErrors, ppReturn,
  statusErrors, worker,
  \* the renderer's App component: its React state; the rows the export
  \* step wrote in this pass of the workflow and the validation result the
  \* main process logged with them; the cell edits made in this pass
  currentStep, files, uiInvoices, csvRows, validationResult, isProcessing,
  exportResult, written, edits,
  \* one call of a function of the engine that keeps no state: the function
  \* called, its argument, the value it returned
  callee, callArg, callResult,
  \* the InvoiceParser of the main process: the array this.warnings refers
  \* to, the arrays created so far with their elements, and for each call
  \* of parseInvoiceText its text and the record returned (its warnings the
  \* array the record refers to)
  parserWarnings, warningArrays, parsedRecords,
  \* the OCREngine of the main process under several 'process-pdfs'
  \* invocations: OCREngine.worker, the workers created so far, and for each
  \* invocation its position, the scanned documents it has left, the worker
  \* its pending recognize runs on and the documents it failed on
  ocrWorker, workerState, invPc, invScans, invWorker, invErrors

sanVars == <<value, sanitized, resanitized, sanPc>>
detVars == <<seenInvoices, hashCache, tracked, lastCall, batch>>
valVars == <<valInvoice, valResult, valPc>>
ppVars == <<filePaths, ppPc, metadata, ppIndex, extractedInvoices, ppErrors,
            ppReturn, statusErrors, worker>>
appVars == <<currentStep, files, uiInvoices, csvRows, validationResult,
             isProcessing, exportResult, written, edits>>
callVars == <<callee, callArg, callResult>>
parserVars == <<parserWarnings, warningArrays, parsedRecords>>
ocrVars == <<ocrWorker, workerState, invPc, invScans, invWorker, invErrors>>
vars == <<sanVars, detVars, valVars, ppVars, appVars, callVars, parserVars,
          ocrVars>>

\* what the calls on one component leave alone
exceptSan == <<detVars, valVars, ppVars, appVars, callVars, parserVars, ocrVars>>
exceptDet == <<sanVars, valVars, ppVars, appVars, callVars, parserVars, ocrVars>>
exceptVal == <<sanVars, detVars, ppVars, appVars, callVars, parserVars, ocrVars>>
exceptPp == <<sanVars, detVars, valVars, appVars, callVars, parserVars, ocrVars>>
exceptApp == <<sanVars, detVars, valVars, ppVars, callVars, parserVars, ocrVars>>
exceptCall == <<sanVars, detVars, valVars, ppVars, appVars, parserVars, ocrVars>>
exceptParser == <<sanVars, detVars, valVars, ppVars, appVars, callVars, ocrVars>>
exceptOcr == <<sanVars, detVars, valVars, ppVars, appVars, callVars, parserVars>>

(***************************************************************************)
(* Bounds                                                                  *)
(***************************************************************************)
MaxFieldLen == 3
\* longest batch given to detectDuplicates / removeDuplicates on its own
MaxBatch == 4
\* longest batch within a history of detector calls
MaxRunBatch == 2
\* most invoices held in seenInvoices within a history of detector calls
MaxTracked == 3
\* most line items of a validated record
MaxLineItems == 2
\* most files submitted in one 'process-pdfs' request
MaxFiles == 2
\* most cells edited in one review of the preview table
MaxEdits == 2
\* largest day and month number a date string is written from
MaxDay == 32
MaxMonth == 13
\* longest batch given to validateInvoices
MaxValBatch == 3
\* longest batch given to verifyBatch
MaxVerifyBatch == 2
\* longest batch given to formatInvoicesToCSVRows
MaxFormatBatch == 2
\* most line items of an invoice whose total is computed in every order
MaxOrderItems == 3
\* most documents parsed by the one InvoiceParser
MaxDocuments == 4
\* most scanned documents of one 'process-pdfs' invocation
MaxScans == 2

(***************************************************************************)
(* Characters and the string primitives of the JavaScript runtime          *)
(***************************************************************************)
\* Characters matched by \s and removed by String.prototype.trim
Whitespace == {" ", "TAB", "CR"}

\* Characters matched by /[\x00-\x1F\x7F]/
ControlChars == {"TAB", "CR", "NUL"}

\* Characters matched by /^[=+\-@\t\r]/
InjectionChars == {"=", "+", "-", "@", "TAB", "CR"}

RECURSIVE TrimStart(_)
TrimStart(s) ==
  IF s # <<>> /\ Head(s) \in Whitespace THEN TrimStart(Tail(s)) ELSE s

RECURSIVE TrimEnd(_)
TrimEnd(s) ==
  IF s # <<>> /\ s[Len(s)] \in Whitespace
    THEN TrimEnd(SubSeq(s, 1, Len(s) - 1))
    ELSE s

\* String.prototype.trim
Trim(s) == TrimEnd(TrimStart(s))

\* s.replace(/\s+/g, ' '): every maximal run of whitespace becomes one space
RECURSIVE CollapseWhitespace(_)
CollapseWhitespace(s) ==
  IF s = <<>> THEN <<>>
  ELSE IF Head(s) \in Whitespace
    THEN <<" ">> \o CollapseWhitespace(TrimStart(s))
    ELSE <<Head(s)>> \o CollapseWhitespace(Tail(s))

\* s.replace(/[\x00-\x1F\x7F]/g, '')
StripControlChars(s) == SelectSeq(s, LAMBDA c : c \notin ControlChars)

(***************************************************************************)
(* TemplateFormatter.sanitizeField                                         *)
(***************************************************************************)
\* the injection guard of sanitizeField: prefix a quote when the trimmed
\* value starts with a formula character
PrefixDangerous(t) ==
  IF t # <<>> /\ Head(t) \in InjectionChars THEN <<"'">> \o t ELSE t

sanitizeField(v) ==
  IF v = <<>> THEN <<>>
  ELSE StripControlChars(CollapseWhitespace(PrefixDangerous(Trim(v))))

(***************************************************************************)
(* Numbers.  A quantity or unit amount x is held as the integer 100 * x,   *)
(* so a product quantity * unitAmount, and a sum of such products, is held *)
(* as the integer 10000 * x.                                               *)
(***************************************************************************)
Abs(n) == IF n < 0 THEN -n ELSE n

\* the value NaN, held as an integer no amount of the model takes
NaN == -99999999

isNaN(x) == x = NaN

\* a * b and a + b of JavaScript numbers: NaN if an operand is NaN
Times(a, b) == IF isNaN(a) \/ isNaN(b) THEN NaN ELSE a * b

Plus(a, b) == IF isNaN(a) \/ isNaN(b) THEN NaN ELSE a + b

Digit(d) == <<"0", "1", "2", "3", "4", "5", "6", "7", "8", "9">>[d + 1]

\* the decimal digits of a natural number
RECURSIVE Digits(_)
Digits(n) == IF n < 10 THEN <<Digit(n)>> ELSE Digits(n \div 10) \o <<Digit(n % 10)>>

\* Number.prototype.toFixed(2) of a value held as 10000 * x: the value is
\* rounded to the nearest cent, halves away from zero, and a negative value
\* keeps its sign
toFixed2(t) ==
  LET cents == (Abs(t) + 50) \div 100
  IN  IF isNaN(t) THEN <<"N", "a", "N">>
      ELSE (IF t < 0 THEN <<"-">> ELSE <<>>)
             \o Digits(cents \div 100) \o <<".">>
             \o <<Digit((cents % 100) \div 10), Digit(cents % 10)>>

\* String.prototype.toLowerCase, letter by letter
LowerChar(c) ==
  CASE c = "A" -> "a"
    [] c = "B" -> "b"
    [] c = "C" -> "c"
    [] c = "D" -> "d"
    [] c = "E" -> "e"
    [] c = "F" -> "f"
    [] c = "G" -> "g"
    [] c = "H" -> "h"
    [] c = "I" -> "i"
    [] c = "J" -> "j"
    [] c = "K" -> "k"
    [] c = "L" -> "l"
    [] c = "M" -> "m"
    [] c = "N" -> "n"
    [] c = "O" -> "o"
    [] c = "P" -> "p"
    [] c = "Q" -> "q"
    [] c = "R" -> "r"
    [] c = "S" -> "s"
    [] c = "T" -> "t"
    [] c = "U" -> "u"
    [] c = "V" -> "v"
    [] c = "W" -> "w"
    [] c = "X" -> "x"
    [] c = "Y" -> "y"
    [] c = "Z" -> "z"
    [] OTHER -> c

toLowerCase(s) == [i \in 1..Len(s) |-> LowerChar(s[i])]

\* Array.prototype.join('|')
RECURSIVE JoinBar(_)
JoinBar(parts) ==
  IF parts = <<>> THEN <<>>
  ELSE IF Len(parts) = 1 THEN parts[1]
  ELSE parts[1] \o <<"|">> \o JoinBar(Tail(parts))

(***************************************************************************)
(* A JavaScript Map, in insertion order: a sequence of [key, val] entries  *)
(***************************************************************************)
MapHas(m, k) == \E i \in 1..Len(m) : m[i].key = k

MapGet(m, k) == m[CHOOSE i \in 1..Len(m) : m[i].key = k].val

MapSet(m, k, v) ==
  IF MapHas(m, k)
    THEN [i \in 1..Len(m) |-> IF m[i].key = k THEN [key |-> k, val |-> v] ELSE m[i]]
    ELSE Append(m, [key |-> k, val |-> v])

(***************************************************************************)
(* DuplicateDetector                                                       *)
(***************************************************************************)
\* lineItems.reduce((sum, item) => sum + item.quantity * item.unitAmount, 0)
RECURSIVE SumLineItems(_)
SumLineItems(items) ==
  IF items = <<>> THEN 0
  ELSE Plus(SumLineItems(SubSeq(items, 1, Len(items) - 1)),
            Times(items[Len(items)].quantity, items[Len(items)].unitAmount))

\* mutant: the identifiers are hashed without lower-casing
hashInputOf_CaseSensitive(invoice) ==
  JoinBar(<< Trim(invoice.invoiceNumber),
             Trim(invoice.contactName),
             invoice.invoiceDate,
             toFixed2(SumLineItems(invoice.lineItems)) >>)

\* the string createFingerprint hashes
hashInputOf(invoice) ==
  JoinBar(<< Trim(toLowerCase(invoice.invoiceNumber)),
             Trim(toLowerCase(invoice.contactName)),
             invoice.invoiceDate,
             toFixed2(SumLineItems(invoice.lineItems)) >>)

\* crypto.createHash('sha256').update(input).digest('hex').substring(0, 16):
\* the digest is held as the tagged input (distinct inputs, distinct digests)
sha256Hex16(input) == <<"sha256">> \o input

\* generateHash: [hash, cache], the cached digest when the input was seen
generateHash(cache, input) ==
  IF MapHas(cache, input)
    THEN [hash |-> MapGet(cache, input), cache |-> cache]
    ELSE [hash |-> sha256Hex16(input),
          cache |-> MapSet(cache, input, sha256Hex16(input))]

\* createFingerprint: [fp, cache]
createFingerprint(cache, invoice) ==
  LET g == generateHash(cache, hashInputOf(invoice))
  IN  [fp |-> [hash |-> g.hash,
               invoiceNumber |-> invoice.invoiceNumber,
               contactName |-> invoice.contactName,
               invoiceDate |-> invoice.invoiceDate,
               totalAmount |-> SumLineItems(invoice.lineItems),
               sourceFile |-> invoice.sourceFile],
       cache |-> g.cache]

\* seenInvoices.get(hash) || []
SeenGet(seen, hash) == IF MapHas(seen, hash) THEN MapGet(seen, hash) ELSE <<>>

\* trackInvoice: [seen, cache]
trackInvoice(seen, cache, invoice) ==
  LET c == createFingerprint(cache, invoice)
  IN  [seen |-> MapSet(seen, c.fp.hash, Append(SeenGet(seen, c.fp.hash), c.fp)),
       cache |-> c.cache]

\* the fingerprinting loop of detectDuplicates: [seen, cache]
RECURSIVE TrackAll(_, _, _)
TrackAll(seen, cache, invoices) ==
  IF invoices = <<>> THEN [seen |-> seen, cache |-> cache]
  ELSE LET t == trackInvoice(seen, cache, Head(invoices))
       IN  TrackAll(t.seen, t.cache, Tail(invoices))

\* the duplicate group detectDuplicates reports for one map entry
GroupOf(entry) ==
  [invoiceNumber |-> entry.val[1].invoiceNumber,
   contactName |-> entry.val[1].contactName,
   invoiceDate |-> entry.val[1].invoiceDate,
   totalAmount |-> entry.val[1].totalAmount,
   occurrences |-> Len(entry.val),
   sourceFiles |-> [i \in 1..Len(entry.val) |-> entry.val[i].sourceFile],
   hash |-> entry.key]

\* the entries detectDuplicates reports as groups
IsDuplicateGroup(entry) == Len(entry.val) > 1

\* mutant: every occurrence of a group is counted as a duplicate
ExtraOccurrences_CountAll(entry) == Len(entry.val)

\* what one group adds to totalDuplicates
ExtraOccurrences(entry) == Len(entry.val) - 1

RECURSIVE SumExtra(_)
SumExtra(entries) ==
  IF entries = <<>> THEN 0
  ELSE ExtraOccurrences(Head(entries)) + SumExtra(Tail(entries))

\* mutant: detectDuplicates does not clear the maps
ClearedAtStart_Kept(m) == m

\* the maps detectDuplicates starts from: seenInvoices.clear(), hashCache.clear()
ClearedAtStart(m) == <<>>

\* detectDuplicates: [seen, cache, result]
detectDuplicates(seen, cache, invoices) ==
  LET t == TrackAll(ClearedAtStart(seen), ClearedAtStart(cache), invoices)
      dup == SelectSeq(t.seen, IsDuplicateGroup)
  IN  [seen |-> t.seen,
       cache |-> t.cache,
       result |-> [hasDuplicates |-> Len(dup) > 0,
                   duplicateGroups |-> [i \in 1..Len(dup) |-> GroupOf(dup[i])],
                   totalDuplicates |-> SumExtra(dup),
                   uniqueInvoices |-> Len(t.seen)]]

\* mutant: any tracked fingerprint makes a duplicate, whatever its source
FromOtherSource_AnySource(existing, invoice) == Len(existing) > 0

\* existing.some((f) => f.sourceFile !== invoice.sourceFile)
FromOtherSource(existing, invoice) ==
  \E i \in 1..Len(existing) : existing[i].sourceFile # invoice.sourceFile

\* isDuplicate: [result, cache]
isDuplicate(seen, cache, invoice) ==
  LET c == createFingerprint(cache, invoice)
      existing == SeenGet(seen, c.fp.hash)
  IN  [result |-> IF Len(existing) > 0 THEN FromOtherSource(existing, invoice)
                  ELSE FALSE,
       cache |-> c.cache]

\* mutant: the record is kept when its hash was seen
KeepFirstSeen_Inverted(seenHashes, hash) == seenHashes = {} \/ hash \in seenHashes

\* the test of removeDuplicates: is the record kept
KeepFirstSeen(seenHashes, hash) == hash \notin seenHashes

\* the loop of removeDuplicates: [unique, cache]
RECURSIVE RemoveLoop(_, _, _, _)
RemoveLoop(cache, seenHashes, unique, invoices) ==
  IF invoices = <<>> THEN [unique |-> unique, cache |-> cache]
  ELSE LET c == createFingerprint(cache, Head(invoices))
       IN  IF KeepFirstSeen(seenHashes, c.fp.hash)
             THEN RemoveLoop(c.cache, seenHashes \cup {c.fp.hash},
                             Append(unique, Head(invoices)), Tail(invoices))
             ELSE RemoveLoop(c.cache, seenHashes, unique, Tail(invoices))

\* removeDuplicates: [unique, cache]
removeDuplicates(cache, invoices) == RemoveLoop(cache, {}, <<>>, invoices)

(***************************************************************************)
(* TemplateFormatter: rows                                                 *)
(***************************************************************************)
XERO_CSV_HEADERS ==
  << "ContactName", "InvoiceNumber", "InvoiceDate", "DueDate", "Description",
     "Quantity", "UnitAmount", "AccountCode", "TaxType", "Reference" >>

REQUIRED_FIELDS == <<"ContactName", "InvoiceNumber", "InvoiceDate", "DueDate">>

DEFAULT_QUANTITY == <<"1">>

DEFAULT_ACCOUNT_CODE == <<"2", "0", "0">>

DEFAULT_TAX_TYPE ==
  <<"G", "S", "T", " ", "o", "n", " ", "I", "n", "c", "o", "m", "e">>

\* Number.prototype.toString of a value held as 100 * x: the integer part
\* and, when there is one, the fraction without a trailing zero
numberToString(v) ==
  LET whole == Abs(v) \div 100
      frac == Abs(v) % 100
  IN  (IF v < 0 THEN <<"-">> ELSE <<>>)
        \o Digits(whole)
        \o (IF frac = 0 THEN <<>>
            ELSE IF frac % 10 = 0 THEN <<".", Digit(frac \div 10)>>
            ELSE <<".", Digit(frac \div 10), Digit(frac % 10)>>)

formatNumber(v) == IF isNaN(v) THEN DEFAULT_QUANTITY ELSE numberToString(v)

formatCurrency(v) == IF isNaN(v) THEN <<"0", ".", "0", "0">> ELSE toFixed2(100 * v)

\* a || b on strings
OrDefault(a, b) == IF a = <<>> THEN b ELSE a

\* the row formatSingleInvoice builds for one line item
RowOf(invoice, lineItem) ==
  [ContactName |-> sanitizeField(invoice.contactName),
   InvoiceNumber |-> sanitizeField(invoice.invoiceNumber),
   InvoiceDate |-> invoice.invoiceDate,
   DueDate |-> invoice.dueDate,
   Description |-> sanitizeField(lineItem.description),
   Quantity |-> formatNumber(lineItem.quantity),
   UnitAmount |-> formatCurrency(lineItem.unitAmount),
   AccountCode |-> OrDefault(lineItem.accountCode, DEFAULT_ACCOUNT_CODE),
   TaxType |-> OrDefault(lineItem.taxType, DEFAULT_TAX_TYPE),
   Reference |-> IF invoice.reference # <<>> THEN sanitizeField(invoice.reference)
                 ELSE <<>>]

\* mutant: one row for the invoice, from its first line item
formatSingleInvoice_FirstItemOnly(invoice) ==
  IF invoice.lineItems = <<>> THEN <<>>
  ELSE <<RowOf(invoice, invoice.lineItems[1])>>

formatSingleInvoice(invoice) ==
  [i \in 1..Len(invoice.lineItems) |-> RowOf(invoice, invoice.lineItems[i])]

RECURSIVE formatInvoicesToCSVRows(_)
formatInvoicesToCSVRows(invoiceList) ==
  IF invoiceList = <<>> THEN <<>>
  ELSE formatSingleInvoice(Head(invoiceList))
         \o formatInvoicesToCSVRows(Tail(invoiceList))

\* isNaN(parseFloat(s)): parseFloat skips leading whitespace and reads an
\* optional sign and a decimal literal; it is NaN when none is there
parseFloatIsNaN(s) ==
  LET t == TrimStart(s)
      u == IF t # <<>> /\ Head(t) \in {"+", "-"} THEN Tail(t) ELSE t
  IN  ~(\/ u # <<>> /\ Head(u) \in {"0", "1", "2", "3", "4", "5", "6", "7", "8", "9"}
        \/ Len(u) >= 2 /\ u[1] = "."
             /\ u[2] \in {"0", "1", "2", "3", "4", "5", "6", "7", "8", "9"})

(***************************************************************************)
(* InvoiceValidator                                                        *)
(***************************************************************************)
DigitChars == {"0", "1", "2", "3", "4", "5", "6", "7", "8", "9"}

DigitValue(c) == CHOOSE d \in 0..9 : Digit(d) = c

\* parseInt of a string of digits
RECURSIVE parseInt(_)
parseInt(ds) ==
  IF ds = <<>> THEN 0
  ELSE 10 * parseInt(SubSeq(ds, 1, Len(ds) - 1)) + DigitValue(ds[Len(ds)])

\* dateStr.match(/^(\d{2})\/(\d{2})\/(\d{4})$/)
MatchesDatePattern(dateStr) ==
  /\ Len(dateStr) = 10
  /\ dateStr[3] = "/"
  /\ dateStr[6] = "/"
  /\ \A i \in {1, 2, 4, 5, 7, 8, 9, 10} : dateStr[i] \in DigitChars

\* mutant: every fourth year is a leap year
IsLeapYear_Julian(year) == year % 4 = 0

IsLeapYear(year) == (year % 4 = 0 /\ year % 100 # 0) \/ year % 400 = 0

\* new Date(year, month, 0).getDate(): the last day of the month
DaysInMonth(year, month) ==
  IF month = 2 THEN (IF IsLeapYear(year) THEN 29 ELSE 28)
  ELSE IF month \in {4, 6, 9, 11} THEN 30
  ELSE 31

\* the range checks of isValidAustralianDate
DateInRange(day, month, year) ==
  /\ ~(month < 1 \/ month > 12)
  /\ ~(day < 1 \/ day > 31)
  /\ ~(year < 1900 \/ year > 2100)
  /\ ~(day > DaysInMonth(year, month))

isValidAustralianDate(dateStr) ==
  /\ MatchesDatePattern(dateStr)
  /\ DateInRange(parseInt(SubSeq(dateStr, 1, 2)),
                 parseInt(SubSeq(dateStr, 4, 5)),
                 parseInt(SubSeq(dateStr, 7, 10)))

\* a ValidationError / ValidationWarning of validateInvoice; item is the
\* 1-based line item the message names, 0 when it names none
Issue(field, message, item, invoiceNumber) ==
  [field |-> field, message |-> message, item |-> item,
   invoiceNumber |-> invoiceNumber]

\* the errors of validateInvoice for a date field
DateErrors(field, dateStr, invoiceNumber) ==
  IF dateStr = <<>> THEN <<Issue(field, "is required", 0, invoiceNumber)>>
  ELSE IF ~isValidAustralianDate(dateStr)
    THEN <<Issue(field, "Invalid date format", 0, invoiceNumber)>>
    ELSE <<>>

\* mutant: a zero quantity is accepted
QuantityInvalid_ZeroAllowed(quantity) == isNaN(quantity) \/ quantity < 0

\* isNaN(item.quantity) || item.quantity <= 0
QuantityInvalid(quantity) == isNaN(quantity) \/ quantity <= 0

\* the errors validateInvoice raises for line item i
LineItemErrors(item, i, invoiceNumber) ==
  (IF QuantityInvalid(item.quantity)
     THEN <<Issue("Quantity", "has invalid quantity", i, invoiceNumber)>>
     ELSE <<>>)
  \o (IF isNaN(item.unitAmount)
        THEN <<Issue("UnitAmount", "has invalid unit amount", i, invoiceNumber)>>
        ELSE <<>>)

\* the warnings validateInvoice raises for line item i
LineItemWarnings(item, i, invoiceNumber) ==
  (IF item.description = <<>>
     THEN <<Issue("Description", "has no description", i, invoiceNumber)>>
     ELSE <<>>)
  \o (IF item.accountCode = <<>>
        THEN <<Issue("AccountCode", "has no account code", i, invoiceNumber)>>
        ELSE <<>>)

\* the loop of validateInvoice over the line items from item i on
RECURSIVE AllLineItemErrors(_, _, _)
AllLineItemErrors(items, i, invoiceNumber) ==
  IF i > Len(items) THEN <<>>
  ELSE LineItemErrors(items[i], i, invoiceNumber)
         \o AllLineItemErrors(items, i + 1, invoiceNumber)

RECURSIVE AllLineItemWarnings(_, _, _)
AllLineItemWarnings(items, i, invoiceNumber) ==
  IF i > Len(items) THEN <<>>
  ELSE LineItemWarnings(items[i], i, invoiceNumber)
         \o AllLineItemWarnings(items, i + 1, invoiceNumber)

\* the error validateInvoice raises for the line-item list as a whole
\* a check that lets a record without line items pass
LineItemsErrors_NoneRequired(items, invoiceNumber) == <<>>

LineItemsErrors(items, invoiceNumber) ==
  IF Len(items) = 0
    THEN <<Issue("LineItems", "At least one line item is required", 0,
                 invoiceNumber)>>
    ELSE <<>>

validateInvoice(invoice) ==
  LET n == invoice.invoiceNumber
      errors ==
        (IF n = <<>>
           THEN <<Issue("InvoiceNumber", "is required", 0, <<"unknown">>)>>
           ELSE <<>>)
        \o (IF invoice.contactName = <<>>
              THEN <<Issue("ContactName", "is required", 0, n)>>
              ELSE <<>>)
        \o DateErrors("InvoiceDate", invoice.invoiceDate, n)
        \o DateErrors("DueDate", invoice.dueDate, n)
        \o LineItemsErrors(invoice.lineItems, n)
        \o AllLineItemErrors(invoice.lineItems, 1, n)
      warnings ==
        AllLineItemWarnings(invoice.lineItems, 1, n)
        \o (IF invoice.extractionConfidence < 60
              THEN <<Issue("Confidence", "Low extraction confidence", 0, n)>>
              ELSE <<>>)
        \o [i \in 1..Len(invoice.warnings) |->
              Issue("Extraction", invoice.warnings[i], 0, n)]
  IN  [isValid |-> Len(errors) = 0, errors |-> errors, warnings |-> warnings]

\* how many invoices of the batch carry the invoice number
NumberCount(invoices, number) ==
  Cardinality({i \in 1..Len(invoices) : invoices[i].invoiceNumber = number})

\* the duplicate-number warnings of validateInvoices, one for each number
\* counted more than once, in order of first occurrence
RECURSIVE DuplicateNumberWarnings(_, _)
DuplicateNumberWarnings(invoices, i) ==
  IF i > Len(invoices) THEN <<>>
  ELSE LET number == invoices[i].invoiceNumber
       IN  (IF /\ NumberCount(invoices, number) > 1
               /\ \A j \in 1..(i - 1) : invoices[j].invoiceNumber # number
              THEN <<Issue("InvoiceNumber", "Duplicate invoice number",
                           NumberCount(invoices, number), number)>>
              ELSE <<>>)
             \o DuplicateNumberWarnings(invoices, i + 1)

RECURSIVE ConcatErrors(_)
ConcatErrors(invoices) ==
  IF invoices = <<>> THEN <<>>
  ELSE validateInvoice(Head(invoices)).errors \o ConcatErrors(Tail(invoices))

RECURSIVE ConcatWarnings(_)
ConcatWarnings(invoices) ==
  IF invoices = <<>> THEN <<>>
  ELSE validateInvoice(Head(invoices)).warnings \o ConcatWarnings(Tail(invoices))

\* mutant: a duplicate invoice number is an error
validateInvoices_DuplicatesAreErrors(invoices) ==
  [isValid |->
     Len(DuplicateNumberWarnings(invoices, 1) \o ConcatErrors(invoices)) = 0,
   errors |-> DuplicateNumberWarnings(invoices, 1) \o ConcatErrors(invoices),
   warnings |-> ConcatWarnings(invoices)]

validateInvoices(invoices) ==
  [isValid |-> Len(ConcatErrors(invoices)) = 0,
   errors |-> ConcatErrors(invoices),
   warnings |-> DuplicateNumberWarnings(invoices, 1) \o ConcatWarnings(invoices)]

(***************************************************************************)
(* TemplateFormatter.validateCSVRows                                       *)
(***************************************************************************)
RowIssue(field, message, row) == [field |-> field, message |-> message, row |-> row]

\* the errors of the required fields of one row, in the order of
\* REQUIRED_FIELDS
RequiredFieldErrors(row, rowIndex) ==
  LET RECURSIVE From(_)
      From(k) ==
        IF k > Len(REQUIRED_FIELDS) THEN <<>>
        ELSE (IF Trim(row[REQUIRED_FIELDS[k]]) = <<>>
                THEN <<RowIssue(REQUIRED_FIELDS[k], "Required field is empty",
                                rowIndex)>>
                ELSE <<>>)
               \o From(k + 1)
  IN  From(1)

RowDateErrors(row, field, rowIndex) ==
  IF row[field] # <<>> /\ ~isValidAustralianDate(row[field])
    THEN <<RowIssue(field, "Invalid date format", rowIndex)>>
    ELSE <<>>

RowNumberErrors(row, field, rowIndex) ==
  IF row[field] # <<>> /\ parseFloatIsNaN(row[field])
    THEN <<RowIssue(field, "Invalid number", rowIndex)>>
    ELSE <<>>

RowErrors(row, rowIndex) ==
  RequiredFieldErrors(row, rowIndex)
    \o RowDateErrors(row, "InvoiceDate", rowIndex)
    \o RowDateErrors(row, "DueDate", rowIndex)
    \o RowNumberErrors(row, "Quantity", rowIndex)
    \o RowNumberErrors(row, "UnitAmount", rowIndex)

RowWarnings(row, rowIndex) ==
  (IF row.AccountCode = <<>> \/ row.AccountCode = DEFAULT_ACCOUNT_CODE
     THEN <<RowIssue("AccountCode", "Using default account code", rowIndex)>>
     ELSE <<>>)
  \o (IF row.Description = <<>> \/ Len(Trim(row.Description)) < 3
        THEN <<RowIssue("Description", "Description is very short or empty",
                        rowIndex)>>
        ELSE <<>>)

\* the summary warnings: one for each invoice number on more than 50 rows,
\* in order of first occurrence
ManyRowsWarnings(rows) ==
  LET Count(n) == Cardinality({j \in 1..Len(rows) : rows[j].InvoiceNumber = n})
      RECURSIVE From(_)
      From(i) ==
        IF i > Len(rows) THEN <<>>
        ELSE (IF /\ Count(rows[i].InvoiceNumber) > 50
                 /\ \A j \in 1..(i - 1) :
                      rows[j].InvoiceNumber # rows[i].InvoiceNumber
                THEN <<RowIssue("InvoiceNumber", "Invoice has many line items", 0)>>
                ELSE <<>>)
               \o From(i + 1)
  IN  From(1)

validateCSVRows(rows) ==
  LET RECURSIVE ErrorsFrom(_)
      ErrorsFrom(i) ==
        IF i > Len(rows) THEN <<>>
        ELSE RowErrors(rows[i], i) \o ErrorsFrom(i + 1)
      RECURSIVE WarningsFrom(_)
      WarningsFrom(i) ==
        IF i > Len(rows) THEN <<>>
        ELSE RowWarnings(rows[i], i) \o WarningsFrom(i + 1)
      errors == ErrorsFrom(1)
  IN  [isValid |-> Len(errors) = 0,
       errors |-> errors,
       warnings |-> WarningsFrom(1) \o ManyRowsWarnings(rows)]

(***************************************************************************)
(* Specification SpecSanitize: the sanitizer on every bounded string       *)
(***************************************************************************)
\* the characters field values are drawn from
FieldChars == {"=", "+", "-", "@", "TAB", "CR", " ", "NUL", "'", "a"}

\* every string of at most n characters over the alphabet cs
StringsUpTo(cs, n) == UNION {[1..k -> cs] : k \in 0..n}

\* the sanitizer before any input
SanIdle ==
  /\ value = <<>>
  /\ sanitized = <<>>
  /\ resanitized = <<>>
  /\ sanPc = "idle"

\* new DuplicateDetector(): both maps empty
DetFresh ==
  /\ seenInvoices = <<>>
  /\ hashCache = <<>>
  /\ tracked = <<>>
  /\ lastCall = [op |-> "none"]
  /\ batch = <<>>

\* the validator before any call
ValIdle ==
  /\ valInvoice = <<>>
  /\ valResult = <<>>
  /\ valPc = "idle"

\* the main process before any 'process-pdfs' request
PpIdle ==
  /\ filePaths = <<>>
  /\ ppPc = "idle"
  /\ metadata = <<>>
  /\ ppIndex = 0
  /\ extractedInvoices = <<>>
  /\ ppErrors = <<>>
  /\ ppReturn = [invoices |-> <<>>, errors |-> <<>>]
  /\ statusErrors = <<>>
  /\ worker = "null"

\* the InvoiceParser as constructed: warnings = [], the first array
ParserFresh ==
  /\ parserWarnings = 1
  /\ warningArrays = <<<<>>>>
  /\ parsedRecords = <<>>

\* the 'process-pdfs' invocations that may be under way together
Invocations == {"first", "second"}

\* the OCREngine as constructed (worker = null, held as 0), no invocation
\* under way
OcrFresh ==
  /\ ocrWorker = 0
  /\ workerState = <<>>
  /\ invPc = [i \in Invocations |-> "idle"]
  /\ invScans = [i \in Invocations |-> 0]
  /\ invWorker = [i \in Invocations |-> 0]
  /\ invErrors = [i \in Invocations |-> 0]

\* the main process with no 'process-pdfs' under way
MainIdle == PpIdle /\ ParserFresh /\ OcrFresh

\* the App component as mounted: the useState initial values; a value that
\* may be null is a sequence of at most one element
AppMounted ==
  /\ currentStep = "upload"
  /\ files = <<>>
  /\ uiInvoices = <<>>
  /\ csvRows = <<>>
  /\ validationResult = <<>>
  /\ isProcessing = FALSE
  /\ exportResult = <<>>
  /\ written = <<>>
  /\ edits = 0

\* no function called yet
NoCall ==
  /\ callee = "none"
  /\ callArg = <<>>
  /\ callResult = <<>>

SanInit ==
  /\ value \in StringsUpTo(FieldChars, MaxFieldLen)
  /\ sanitized = <<>>
  /\ resanitized = <<>>
  /\ sanPc = "input"
  /\ DetFresh
  /\ ValIdle
  /\ MainIdle
  /\ AppMounted
  /\ NoCall

\* formatSingleInvoice sanitizes a text field of the invoice
SanitizeOnce ==
  /\ sanPc = "input"
  /\ sanitized' = sanitizeField(value)
  /\ sanPc' = "once"
  /\ UNCHANGED <<value, resanitized, exceptSan>>

\* the sanitized value is sanitized again (a re-formatting pass)
SanitizeAgain ==
  /\ sanPc = "once"
  /\ resanitized' = sanitizeField(sanitized)
  /\ sanPc' = "twice"
  /\ UNCHANGED <<value, sanitized, exceptSan>>

SanNext == SanitizeOnce \/ SanitizeAgain

SpecSanitize == SanInit /\ [][SanNext]_vars

\* C1: the value returned by the sanitizer never begins with one of
\* = + - @ TAB CR.
C1_NeverStartsWithFormulaChar ==
  sanPc # "input" => (sanitized = <<>> \/ Head(sanitized) \notin InjectionChars)

\* C2: the sanitizer is idempotent: sanitizing a sanitized value returns it
\* unchanged.
C2_SanitizeIdempotent ==
  sanPc = "twice" => resanitized = sanitized

(***************************************************************************)
(* Invoices the detector is exercised on                                   *)
(***************************************************************************)
Date_15_03_2024 == <<"1", "5", "/", "0", "3", "/", "2", "0", "2", "4">>
Date_15_04_2024 == <<"1", "5", "/", "0", "4", "/", "2", "0", "2", "4">>

LineItem(desc, qty, amount) ==
  [description |-> desc, quantity |-> qty, unitAmount |-> amount,
   accountCode |-> <<>>, taxType |-> <<>>]

\* an ExtractedInvoice with the given identifying fields
Invoice(number, contact, date, items, source) ==
  [invoiceNumber |-> number, invoiceDate |-> date, dueDate |-> Date_15_04_2024,
   contactName |-> contact, reference |-> <<>>, lineItems |-> items,
   sourceFile |-> source, extractionConfidence |-> 90, warnings |-> <<>>]

\* 1 x 10.00, 2 x 5.00 and 1 x 5.00 + 1 x 5.00 all total 10.00
Items_1x10 == <<LineItem(<<"a">>, 100, 1000)>>
Items_2x5 == <<LineItem(<<"a">>, 200, 500)>>
Items_5and5 == <<LineItem(<<"a">>, 100, 500), LineItem(<<"b">>, 100, 500)>>
Items_1x10_01 == <<LineItem(<<"a">>, 100, 1001)>>

\* the records of a history of detector calls: two that normalize to the
\* same identifying fields, from two source files, and one that does not
RunInvoices ==
  { Invoice(<<"a">>, <<"x">>, Date_15_03_2024, Items_1x10, "f1.pdf"),
    Invoice(<<"A", " ">>, <<" ", "X">>, Date_15_03_2024, Items_2x5, "f2.pdf"),
    Invoice(<<"b">>, <<"x">>, Date_15_03_2024, Items_1x10, "f2.pdf") }

\* the records of a batch checked on its own: the above, one more of each
\* of their two fingerprints, and one that differs in its total alone
BatchInvoices ==
  RunInvoices \cup
  { Invoice(<<"A">>, <<"x">>, Date_15_03_2024, Items_5and5, "f1.pdf"),
    Invoice(<<"B">>, <<"X", " ">>, Date_15_03_2024, Items_2x5, "f3.pdf"),
    Invoice(<<"a">>, <<"x">>, Date_15_03_2024, Items_1x10_01, "f1.pdf") }

\* every sequence of at most n records of rs
Batches(rs, n) == UNION {[1..k -> rs] : k \in 0..n}

(***************************************************************************)
(* Specification SpecDetector: histories of calls on one detector instance *)
(***************************************************************************)
DetectorInit ==
  SanIdle /\ DetFresh /\ ValIdle /\ MainIdle /\ AppMounted /\ NoCall

\* ipcMain 'detect-duplicates': duplicateDetector.detectDuplicates(invoices)
DetectDuplicatesCall ==
  \E invoices \in Batches(RunInvoices, MaxRunBatch) :
    LET d == detectDuplicates(seenInvoices, hashCache, invoices)
    IN  /\ seenInvoices' = d.seen
        /\ hashCache' = d.cache
        /\ tracked' = invoices
        /\ lastCall' = [op |-> "detectDuplicates", arg |-> invoices,
                        result |-> d.result, heldBefore |-> Len(tracked)]
        /\ UNCHANGED <<batch, exceptDet>>

\* ipcMain 'remove-duplicates': duplicateDetector.removeDuplicates(invoices)
RemoveDuplicatesCall ==
  \E invoices \in Batches(RunInvoices, MaxRunBatch) :
    /\ hashCache' = removeDuplicates(hashCache, invoices).cache
    /\ lastCall' = [op |-> "removeDuplicates"]
    /\ UNCHANGED <<seenInvoices, tracked, batch, exceptDet>>

IsDuplicateCall ==
  \E invoice \in RunInvoices :
    LET d == isDuplicate(seenInvoices, hashCache, invoice)
    IN  /\ hashCache' = d.cache
        /\ lastCall' = [op |-> "isDuplicate", arg |-> invoice, result |-> d.result]
        /\ UNCHANGED <<seenInvoices, tracked, batch, exceptDet>>

TrackInvoiceCall ==
  \E invoice \in RunInvoices :
    LET t == trackInvoice(seenInvoices, hashCache, invoice)
    IN  /\ Len(tracked) < MaxTracked
        /\ seenInvoices' = t.seen
        /\ hashCache' = t.cache
        /\ tracked' = Append(tracked, invoice)
        /\ lastCall' = [op |-> "trackInvoice", arg |-> invoice]
        /\ UNCHANGED <<batch, exceptDet>>

\* reset(): seenInvoices.clear(); hashCache.clear()
ResetCall ==
  /\ seenInvoices' = <<>>
  /\ hashCache' = <<>>
  /\ tracked' = <<>>
  /\ lastCall' = [op |-> "reset"]
  /\ UNCHANGED <<batch, exceptDet>>

DetectorNext ==
  \/ DetectDuplicatesCall
  \/ RemoveDuplicatesCall
  \/ IsDuplicateCall
  \/ TrackInvoiceCall
  \/ ResetCall

SpecDetector == DetectorInit /\ [][DetectorNext]_vars

(***************************************************************************)
(* Specification SpecBatch: detectDuplicates and removeDuplicates on every *)
(* bounded batch                                                           *)
(***************************************************************************)
BatchInit ==
  /\ SanIdle
  /\ ValIdle
  /\ MainIdle
  /\ AppMounted
  /\ NoCall
  /\ seenInvoices = <<>>
  /\ hashCache = <<>>
  /\ tracked = <<>>
  /\ lastCall = [op |-> "none"]
  /\ batch \in Batches(BatchInvoices, MaxBatch)

BatchDetect ==
  LET d == detectDuplicates(seenInvoices, hashCache, batch)
  IN  /\ lastCall.op # "detectDuplicates"
      /\ seenInvoices' = d.seen
      /\ hashCache' = d.cache
      /\ tracked' = batch
      /\ lastCall' = [op |-> "detectDuplicates", arg |-> batch,
                      result |-> d.result, heldBefore |-> Len(tracked)]
      /\ UNCHANGED <<batch, exceptDet>>

BatchRemove ==
  LET r == removeDuplicates(hashCache, batch)
  IN  /\ lastCall.op \in {"none", "detectDuplicates"}
      /\ hashCache' = r.cache
      /\ lastCall' = [op |-> "removeDuplicates", arg |-> batch, result |-> r.unique]
      /\ UNCHANGED <<seenInvoices, tracked, batch, exceptDet>>

\* removeDuplicates applied to its own output
BatchRemoveAgain ==
  LET r == removeDuplicates(hashCache, lastCall.result)
  IN  /\ lastCall.op = "removeDuplicates"
      /\ hashCache' = r.cache
      /\ lastCall' = [op |-> "removeDuplicatesAgain", arg |-> lastCall.result,
                      result |-> r.unique]
      /\ UNCHANGED <<seenInvoices, tracked, batch, exceptDet>>

BatchNext == BatchDetect \/ BatchRemove \/ BatchRemoveAgain

SpecBatch == BatchInit /\ [][BatchNext]_vars

(***************************************************************************)
(* Properties of the duplicate detector                                    *)
(***************************************************************************)
\* every fingerprint held in seenInvoices
HeldFingerprints ==
  UNION { {seenInvoices[i].val[j] : j \in 1..Len(seenInvoices[i].val)}
          : i \in 1..Len(seenInvoices) }

\* the identifying fields of a fingerprint, normalized: lower-cased and
\* trimmed number and contact, the date, the total to two decimals
NormalizedFields(f) ==
  << Trim(toLowerCase(f.invoiceNumber)), Trim(toLowerCase(f.contactName)),
     f.invoiceDate, toFixed2(f.totalAmount) >>

\* C3: any two records with equal normalized identifying fields receive the
\* same fingerprint hash, whatever their source file and whatever the
\* detector's history.
C3_SameFieldsSameHash ==
  \A f, g \in HeldFingerprints :
    NormalizedFields(f) = NormalizedFields(g) => f.hash = g.hash

C3_Witness ==
  \E f, g \in HeldFingerprints :
    /\ NormalizedFields(f) = NormalizedFields(g)
    /\ f.invoiceNumber # g.invoiceNumber
    /\ f.contactName # g.contactName
    /\ f.sourceFile # g.sourceFile
    /\ lastCall.op = "trackInvoice"

\* the fingerprint hash of a record, computed without a cache
HashOf(invoice) == sha256Hex16(hashInputOf(invoice))

\* the positions of a batch whose record has hash h
Members(invoices, h) == {i \in 1..Len(invoices) : HashOf(invoices[i]) = h}

Hashes(invoices) == {HashOf(invoices[i]) : i \in 1..Len(invoices)}

SharedHashes(invoices) ==
  {h \in Hashes(invoices) : Cardinality(Members(invoices, h)) >= 2}

\* the source files of the members of a group, in batch order
RECURSIVE SourcesOf(_, _)
SourcesOf(invoices, h) ==
  IF invoices = <<>> THEN <<>>
  ELSE (IF HashOf(Head(invoices)) = h THEN <<Head(invoices).sourceFile>> ELSE <<>>)
         \o SourcesOf(Tail(invoices), h)

\* C4: detectDuplicates partitions the batch by fingerprint: one group for
\* each fingerprint shared by two or more records, with occurrences equal to
\* the group size and one source file per member; hasDuplicates iff a group
\* exists; totalDuplicates is the sum of (group size - 1); uniqueInvoices is
\* the number of distinct fingerprints; the two counts add up to the batch.
C4_DetectPartitions ==
  lastCall.op = "detectDuplicates" =>
    LET r == lastCall.result
        groups == r.duplicateGroups
    IN  /\ Len(groups) = Cardinality(SharedHashes(lastCall.arg))
        /\ \A h \in SharedHashes(lastCall.arg) :
             \E i \in 1..Len(groups) :
               /\ groups[i].hash = h
               /\ groups[i].occurrences = Cardinality(Members(lastCall.arg, h))
               /\ groups[i].occurrences >= 2
               /\ groups[i].sourceFiles = SourcesOf(lastCall.arg, h)
        /\ r.hasDuplicates = (SharedHashes(lastCall.arg) # {})
        /\ r.uniqueInvoices = Cardinality(Hashes(lastCall.arg))
        /\ r.totalDuplicates = Len(lastCall.arg) - Cardinality(Hashes(lastCall.arg))
        /\ r.totalDuplicates + r.uniqueInvoices = Len(lastCall.arg)

\* a batch with two duplicate groups
C4_Witness ==
  /\ lastCall.op = "detectDuplicates"
  /\ Len(lastCall.result.duplicateGroups) = 2
  /\ lastCall.result.totalDuplicates = 2

\* the positions of a batch that hold the first record of their fingerprint
FirstPositions(invoices) ==
  {i \in 1..Len(invoices) :
     \A j \in 1..(i - 1) : HashOf(invoices[j]) # HashOf(invoices[i])}

\* the n-th smallest element of a set of positions
NthPosition(ps, n) == CHOOSE p \in ps : Cardinality({q \in ps : q < p}) = n - 1

\* C5: removeDuplicates returns, in input order, exactly the first record of
\* each fingerprint of its input, and applied to its own output returns it
\* unchanged.
C5_RemoveKeepsFirst ==
  /\ lastCall.op = "removeDuplicates" =>
       /\ Len(lastCall.result) = Cardinality(FirstPositions(lastCall.arg))
       /\ \A n \in 1..Len(lastCall.result) :
            lastCall.result[n]
              = lastCall.arg[NthPosition(FirstPositions(lastCall.arg), n)]
  /\ lastCall.op = "removeDuplicatesAgain" => lastCall.result = lastCall.arg

\* a batch that loses a record placed between two kept ones
C5_Witness ==
  /\ lastCall.op = "removeDuplicates"
  /\ Len(lastCall.arg) = 4
  /\ FirstPositions(lastCall.arg) = {1, 2, 4}

\* C6: isDuplicate(r) is true iff some record tracked since the maps were
\* last cleared has the fingerprint of r and another source file; a record
\* is never a duplicate of records of its own source file.
C6_DuplicateNeedsOtherSource ==
  lastCall.op = "isDuplicate" =>
    lastCall.result
      = (\E i \in 1..Len(tracked) :
           /\ HashOf(tracked[i]) = HashOf(lastCall.arg)
           /\ tracked[i].sourceFile # lastCall.arg.sourceFile)

\* the same source document tracked twice, and asked about
C6_Witness ==
  /\ lastCall.op = "isDuplicate"
  /\ lastCall.result = FALSE
  /\ Cardinality({i \in 1..Len(tracked) :
                    /\ HashOf(tracked[i]) = HashOf(lastCall.arg)
                    /\ tracked[i].sourceFile = lastCall.arg.sourceFile}) >= 2

\* C7: whatever calls came before, detectDuplicates(batch) returns what a
\* fresh detector returns, and afterwards the detector holds exactly the
\* fingerprints of that batch.
C7_NoStateLeak ==
  lastCall.op = "detectDuplicates" =>
    LET fresh == detectDuplicates(<<>>, <<>>, lastCall.arg)
    IN  /\ lastCall.result = fresh.result
        /\ seenInvoices = fresh.seen
        /\ {f.hash : f \in HeldFingerprints} = Hashes(lastCall.arg)
        /\ \A h \in Hashes(lastCall.arg) :
             Len(SeenGet(seenInvoices, h)) = Cardinality(Members(lastCall.arg, h))

\* detectDuplicates called on a detector that held other invoices
C7_Witness ==
  /\ lastCall.op = "detectDuplicates"
  /\ lastCall.heldBefore = MaxTracked
  /\ Len(lastCall.arg) = 1

(***************************************************************************)
(* Specification SpecValidate: validateInvoice on every bounded record     *)
(***************************************************************************)
Date_31_04_2024 == <<"3", "1", "/", "0", "4", "/", "2", "0", "2", "4">>
Date_29_02_2023 == <<"2", "9", "/", "0", "2", "/", "2", "0", "2", "3">>
Date_5_3_2024 == <<"5", "/", "3", "/", "2", "0", "2", "4">>

\* a line item of the validated records
ValItem(desc, qty, amount, code) ==
  [description |-> desc, quantity |-> qty, unitAmount |-> amount,
   accountCode |-> code, taxType |-> <<>>]

\* line items: sound with and without description and account code; with a
\* zero, a negative and a NaN quantity; with a NaN unit amount
ValLineItems ==
  { ValItem(<<"a">>, 100, 1000, <<"2", "0", "0">>),
    ValItem(<<>>, 100, 1000, <<>>),
    ValItem(<<"a">>, 0, 1000, <<"2", "0", "0">>),
    ValItem(<<>>, -100, 1000, <<"2", "0", "0">>),
    ValItem(<<"a">>, NaN, NaN, <<>>),
    ValItem(<<"a">>, 100, NaN, <<"2", "0", "0">>) }

\* records: each required field present or empty, dates valid, impossible,
\* malformed or empty, confidence above or below 60 with or without a
\* carried-over extraction warning
ValInvoices ==
  { [invoiceNumber |-> n, invoiceDate |-> d, dueDate |-> e, contactName |-> c,
     reference |-> <<>>, lineItems |-> items, sourceFile |-> "f1.pdf",
     extractionConfidence |-> w.confidence, warnings |-> w.warnings]
    : n \in {<<>>, <<"a">>}, c \in {<<>>, <<"x">>},
      d \in {<<>>, Date_15_03_2024, Date_31_04_2024, Date_5_3_2024},
      e \in {<<>>, Date_15_04_2024, Date_29_02_2023},
      items \in Batches(ValLineItems, MaxLineItems),
      w \in { [confidence |-> 90, warnings |-> <<>>],
              [confidence |-> 59, warnings |-> <<"No line items">>] } }

ValidateInit ==
  /\ SanIdle
  /\ DetFresh
  /\ MainIdle
  /\ AppMounted
  /\ NoCall
  /\ valInvoice \in ValInvoices
  /\ valResult = <<>>
  /\ valPc = "input"

\* invoiceValidator.validateInvoice(invoice)
ValidateInvoiceCall ==
  /\ valPc = "input"
  /\ valResult' = validateInvoice(valInvoice)
  /\ valPc' = "done"
  /\ UNCHANGED <<valInvoice, exceptVal>>

ValidateNext == ValidateInvoiceCall

SpecValidate == ValidateInit /\ [][ValidateNext]_vars

\* how many errors of a result name the field
ErrorsOn(result, field) ==
  Cardinality({i \in 1..Len(result.errors) : result.errors[i].field = field})

\* how many line items satisfy a condition
ItemsWhere(items, Cond(_)) == Cardinality({i \in 1..Len(items) : Cond(items[i])})

NotAValidDate(dateStr) == dateStr # <<>> /\ ~isValidAustralianDate(dateStr)

BadQuantity(item) == isNaN(item.quantity) \/ ~(item.quantity > 0)

BadUnitAmount(item) == isNaN(item.unitAmount)

\* the error-class conditions the claim lists
ListedErrorCondition(inv) ==
  \/ inv.invoiceNumber = <<>> \/ inv.contactName = <<>>
  \/ inv.invoiceDate = <<>> \/ inv.dueDate = <<>>
  \/ NotAValidDate(inv.invoiceDate) \/ NotAValidDate(inv.dueDate)
  \/ ItemsWhere(inv.lineItems, BadQuantity) > 0
  \/ ItemsWhere(inv.lineItems, BadUnitAmount) > 0

\* the warnings the claim lists
ListedWarningCount(inv) ==
  ItemsWhere(inv.lineItems, LAMBDA item : item.description = <<>>)
  + ItemsWhere(inv.lineItems, LAMBDA item : item.accountCode = <<>>)
  + (IF inv.extractionConfidence < 60 THEN 1 ELSE 0)
  + Len(inv.warnings)

Paths ==
  { [dir |-> "inbox", name |-> "f1.pdf"],
    [dir |-> "inbox", name |-> "f2.pdf"],
    [dir |-> "gone", name |-> "f3.pdf"] }

\* path.basename(filePath)
basename(filePath) == filePath.name

\* the record parseInvoiceText(text, fileName) returns for a document
ParsedInvoice(fileName) ==
  Invoice(<<"a">>, <<"x">>, Date_15_03_2024, Items_1x10, fileName)

\* the entry the handler's catch blocks push
ErrorEntry(file, error) == [file |-> file, error |-> error]

\* where the handler goes once loadPDFs has returned the metadata
AfterLoad(loaded) == IF loaded = <<>> THEN "finally" ELSE "extract"

\* where the handler goes after a file of the list, the last one or not
AfterFile(i, list, next) == IF i < Len(list) THEN ppPc ELSE next

ProcessInit ==
  /\ SanIdle
  /\ DetFresh
  /\ ValIdle
  /\ MainIdle
  /\ AppMounted
  /\ NoCall

\* the renderer sends 'process-pdfs' with its file paths
ProcessPdfsRequest ==
  \E paths \in Batches(Paths, MaxFiles) :
    /\ ppPc = "idle"
    /\ filePaths' = paths
    /\ ppPc' = "initialize"
    /\ UNCHANGED <<metadata, ppIndex, extractedInvoices, ppErrors, ppReturn,
                   statusErrors, worker, exceptPp>>

\* await ocrEngine.initialize() creates the worker; loadPDFs starts
InitializeOcr ==
  /\ ppPc = "initialize"
  /\ worker' = "worker"
  /\ ppIndex' = 1
  /\ ppPc' = IF filePaths = <<>> THEN "finally" ELSE "load"
  /\ UNCHANGED <<filePaths, metadata, extractedInvoices, ppErrors, ppReturn,
                 statusErrors, exceptPp>>

\* Tesseract.createWorker throws: the outer catch records 'Initialization'
InitializeOcrFails ==
  /\ ppPc = "initialize"
  /\ ppErrors' = Append(ppErrors, ErrorEntry("Initialization", "createWorker"))
  /\ ppPc' = "finally"
  /\ UNCHANGED <<filePaths, metadata, ppIndex, extractedInvoices, ppReturn,
                 statusErrors, worker, exceptPp>>

\* loadPDFs: analyzePDF returns the metadata of the next path
LoadPdf ==
  \E pdfType \in {"digital", "scanned", "unknown"} :
    LET loaded == Append(metadata, [filePath |-> filePaths[ppIndex],
                                    fileName |-> basename(filePaths[ppIndex]),
                                    pdfType |-> pdfType])
    IN  /\ ppPc = "load"
        /\ metadata' = loaded
        /\ ppIndex' = IF ppIndex < Len(filePaths) THEN ppIndex + 1 ELSE 1
        /\ ppPc' = AfterFile(ppIndex, filePaths, AfterLoad(loaded))
        /\ UNCHANGED <<filePaths, extractedInvoices, ppErrors, ppReturn,
                       statusErrors, worker, exceptPp>>

\* loadPDFs: analyzePDF throws (file not found, unreadable); the catch of
\* loadPDFs records it in processingStatus.errors
LoadPdfFails ==
  /\ ppPc = "load"
  /\ statusErrors' = Append(statusErrors,
                            ErrorEntry(filePaths[ppIndex], "Failed to load PDF"))
  /\ ppIndex' = IF ppIndex < Len(filePaths) THEN ppIndex + 1 ELSE 1
  /\ ppPc' = AfterFile(ppIndex, filePaths, AfterLoad(metadata))
  /\ UNCHANGED <<filePaths, metadata, extractedInvoices, ppErrors, ppReturn,
                 worker, exceptPp>>

\* the loop body for one loaded document: its text is extracted (natively
\* or by OCR) and parsed, and the invoice is pushed
ExtractAndParse ==
  /\ ppPc = "extract"
  /\ extractedInvoices'
       = Append(extractedInvoices, ParsedInvoice(metadata[ppIndex].fileName))
  /\ ppIndex' = ppIndex + 1
  /\ ppPc' = AfterFile(ppIndex, metadata, "finally")
  /\ UNCHANGED <<filePaths, metadata, ppErrors, ppReturn, statusErrors, worker,
                 exceptPp>>

\* the loop body throws (text extraction, OCR or parsing): the inner catch
\* records the document's file name
ExtractOrParseFails ==
  \E error \in {"extract", "parse"} :
    /\ ppPc = "extract"
    /\ ppErrors' = Append(ppErrors, ErrorEntry(metadata[ppIndex].fileName, error))
    /\ ppIndex' = ppIndex + 1
    /\ ppPc' = AfterFile(ppIndex, metadata, "finally")
    /\ UNCHANGED <<filePaths, metadata, extractedInvoices, ppReturn,
                   statusErrors, worker, exceptPp>>

\* finally: await ocrEngine.terminate(); then the handler returns
TerminateAndReturn ==
  /\ ppPc = "finally"
  /\ worker' = "null"
  /\ ppReturn' = [invoices |-> extractedInvoices, errors |-> ppErrors]
  /\ ppPc' = "done"
  /\ UNCHANGED <<filePaths, metadata, ppIndex, extractedInvoices, ppErrors,
                 statusErrors, exceptPp>>

ProcessNext ==
  \/ ProcessPdfsRequest
  \/ InitializeOcr
  \/ InitializeOcrFails
  \/ LoadPdf
  \/ LoadPdfFails
  \/ ExtractAndParse
  \/ ExtractOrParseFails
  \/ TerminateAndReturn

SpecProcess == ProcessInit /\ [][ProcessNext]_vars

\* the returned result accounts for a file: an invoice or an error entry
AccountedFor(result, fileName) ==
  \/ \E i \in 1..Len(result.invoices) : result.invoices[i].sourceFile = fileName
  \/ \E i \in 1..Len(result.errors) : result.errors[i].file = fileName

\* C9: (when the OCR engine initialises) for every file path submitted, the
\* returned result holds an extracted invoice for that file or an entry for
\* it in the errors list.
C9_EveryFileAccountedFor ==
  (/\ ppPc = "done"
   /\ \A i \in 1..Len(ppReturn.errors) : ppReturn.errors[i].file # "Initialization")
    => \A i \in 1..Len(filePaths) : AccountedFor(ppReturn, basename(filePaths[i]))


(***************************************************************************)
(* Specification SpecApp: the renderer's workflow upload -> processing ->  *)
(* review -> complete.  The user picks files, starts processing, edits     *)
(* cells of the preview table, exports and starts over; what the main      *)
(* process makes of each file and what the save dialog and the file system *)
(* do with an export are chosen by the environment.                        *)
(***************************************************************************)
\* the paths the file dialog may return
AppPaths == {p \in Paths : p.dir = "inbox"}

\* the values a user types into a cell
CellValues == {<<>>, <<"x">>}

\* what 'process-pdfs' makes of one file: a record that validates, a record
\* with an empty contact name, an entry in the errors list, or nothing
FileOutcomes == {"invoice", "invalid", "error", "lost"}

FileStatus(path, status, error) ==
  [name |-> basename(path), path |-> path, status |-> status, error |-> error]

\* the result of 'process-pdfs' when file i had outcome outcomes[i]
RECURSIVE ProcessResult(_, _)
ProcessResult(paths, outcomes) ==
  IF paths = <<>> THEN [invoices |-> <<>>, errors |-> <<>>]
  ELSE LET rest == ProcessResult(Tail(paths), Tail(outcomes))
           name == basename(Head(paths))
           o == Head(outcomes)
       IN  [invoices |->
              (IF o = "invoice" THEN <<ParsedInvoice(name)>>
               ELSE IF o = "invalid"
                 THEN <<[ParsedInvoice(name) EXCEPT !.contactName = <<>>]>>
               ELSE <<>>) \o rest.invoices,
            errors |->
              (IF o = "error" THEN <<ErrorEntry(name, "Unknown error")>>
               ELSE <<>>) \o rest.errors]

\* every result the main process can return for the paths
ProcessResults(paths) ==
  {ProcessResult(paths, outcomes) : outcomes \in [1..Len(paths) -> FileOutcomes]}
    \cup {[invoices |-> <<>>,
           errors |-> <<ErrorEntry("Initialization", "Unknown error")>>]}

\* the status handleProcessPDFs gives a file once the result is back
UpdatedFile(file, result) ==
  IF \E i \in 1..Len(result.errors) : result.errors[i].file = file.name
    THEN LET i == CHOOSE k \in 1..Len(result.errors) :
                    /\ result.errors[k].file = file.name
                    /\ \A j \in 1..(k - 1) : result.errors[j].file # file.name
         IN  [file EXCEPT !.status = "error", !.error = result.errors[i].error]
  ELSE IF \E i \in 1..Len(result.invoices) :
            result.invoices[i].sourceFile = file.name
    THEN [file EXCEPT !.status = "success"]
  ELSE [file EXCEPT !.status = "error", !.error = "No data extracted"]

\* the Export button of the review step is enabled
ExportEnabled ==
  /\ validationResult # <<>>
  /\ Len(validationResult[1].errors) = 0

AppInit ==
  /\ SanIdle
  /\ DetFresh
  /\ ValIdle
  /\ MainIdle
  /\ AppMounted
  /\ NoCall

\* Select Files on the upload step: the dialog returns one or more paths
HandleSelectFiles ==
  /\ currentStep = "upload"
  /\ \E picked \in UNION {[1..k -> AppPaths] : k \in 1..(MaxFiles - Len(files))} :
       files' = files \o [i \in 1..Len(picked) |-> FileStatus(picked[i], "pending", "")]
  /\ UNCHANGED <<currentStep, uiInvoices, csvRows, validationResult,
                 isProcessing, exportResult, written, edits>>
  /\ UNCHANGED exceptApp

\* Process PDFs, up to the call of the main process
HandleProcessPDFs ==
  /\ currentStep = "upload"
  /\ Len(files) > 0
  /\ ~isProcessing
  /\ isProcessing' = TRUE
  /\ currentStep' = "processing"
  /\ files' = [i \in 1..Len(files) |-> [files[i] EXCEPT !.status = "processing"]]
  /\ UNCHANGED <<uiInvoices, csvRows, validationResult, exportResult, written,
                 edits>>
  /\ UNCHANGED exceptApp

\* Process PDFs, from the result on: file statuses, validation of the
\* invoices, the rows of the preview
ProcessPDFsReturns ==
  /\ currentStep = "processing"
  /\ isProcessing
  /\ \E result \in ProcessResults([i \in 1..Len(files) |-> files[i].path]) :
       /\ files' = [i \in 1..Len(files) |->
                      UpdatedFile([files[i] EXCEPT !.status = "pending"], result)]
       /\ uiInvoices' = result.invoices
       /\ validationResult' = <<validateInvoices(result.invoices)>>
       /\ csvRows' = formatInvoicesToCSVRows(result.invoices)
  /\ isProcessing' = FALSE
  /\ currentStep' = "review"
  /\ UNCHANGED <<exportResult, written, edits>>
  /\ UNCHANGED exceptApp

\* the user changes one cell of the preview table
UpdateCSVCell ==
  /\ currentStep \in {"review", "export"}
  /\ edits < MaxEdits
  /\ \E rowIndex \in 1..Len(csvRows), k \in 1..Len(XERO_CSV_HEADERS),
        typed \in CellValues :
       /\ rowIndex <= 20
       /\ csvRows' = [csvRows EXCEPT ![rowIndex][XERO_CSV_HEADERS[k]] = typed]
  /\ edits' = edits + 1
  /\ UNCHANGED <<currentStep, files, uiInvoices, validationResult,
                 isProcessing, exportResult, written>>
  /\ UNCHANGED exceptApp

\* Export to CSV, the save dialog confirmed and the file written: the main
\* process writes the rows it was handed and logs a validation of no
\* invoices
HandleExport ==
  /\ currentStep \in {"review", "export"}
  /\ ExportEnabled
  /\ written' = <<[rows |-> csvRows, logged |-> validateInvoices(<<>>)]>>
  /\ exportResult' = <<"Successfully exported">>
  /\ currentStep' = "complete"
  /\ UNCHANGED <<files, uiInvoices, csvRows, validationResult, isProcessing,
                 edits>>
  /\ UNCHANGED exceptApp

\* Export to CSV, the save dialog cancelled or the write failed
HandleExportFails ==
  /\ currentStep \in {"review", "export"}
  /\ ExportEnabled
  /\ \E error \in {"Export cancelled", "Failed to export CSV"} :
       exportResult' = <<"Export failed", error>>
  /\ UNCHANGED <<currentStep, files, uiInvoices, csvRows, validationResult,
                 isProcessing, written, edits>>
  /\ UNCHANGED exceptApp

\* Clear All, Start Over and Process More Invoices; a new pass of the
\* workflow begins, with no rows written and no cells edited in it
HandleReset ==
  /\ \/ currentStep = "upload" /\ Len(files) > 0
     \/ currentStep \in {"review", "export", "complete"}
  /\ files' = <<>>
  /\ uiInvoices' = <<>>
  /\ csvRows' = <<>>
  /\ validationResult' = <<>>
  /\ exportResult' = <<>>
  /\ currentStep' = "upload"
  /\ written' = <<>>
  /\ edits' = 0
  /\ UNCHANGED isProcessing
  /\ UNCHANGED exceptApp

AppNext ==
  \/ HandleSelectFiles
  \/ HandleProcessPDFs
  \/ ProcessPDFsReturns
  \/ UpdateCSVCell
  \/ HandleExport
  \/ HandleExportFails
  \/ HandleReset

SpecApp == AppInit /\ [][AppNext]_vars

\* C8: rows are written by the export step only if those rows have, at the
\* time they are written, zero validation errors -- also after the user has
\* edited cells of the preview table
C8_WrittenRowsHaveNoErrors ==
  written # <<>> => Len(validateCSVRows(written[1].rows).errors) = 0


(***************************************************************************)
(* Specification SpecDate: isValidAustralianDate, in the validator and in  *)
(* the formatter, on date strings written from a day, a month and a year   *)
(* in several layouts                                                      *)
(***************************************************************************)
\* TemplateFormatter.isValidAustralianDate, the formatter's own copy
formatterIsValidAustralianDate(dateStr) ==
  /\ Len(dateStr) = 10
  /\ dateStr[3] = "/"
  /\ dateStr[6] = "/"
  /\ \A i \in {1, 2, 4, 5, 7, 8, 9, 10} : dateStr[i] \in DigitChars
  /\ LET day == parseInt(SubSeq(dateStr, 1, 2))
         month == parseInt(SubSeq(dateStr, 4, 5))
         year == parseInt(SubSeq(dateStr, 7, 10))
     IN  /\ ~(month < 1 \/ month > 12)
         /\ ~(day < 1 \/ day > 31)
         /\ ~(year < 1900 \/ year > 2100)
         /\ ~(day > DaysInMonth(year, month))

\* the engine before any call
EngineIdle == SanIdle /\ DetFresh /\ ValIdle /\ MainIdle /\ AppMounted

\* the years dates are written from: around both ends of the accepted
\* range, century years, leap and common years
Years == {1899, 1900, 1996, 2000, 2023, 2024, 2100, 2101}

\* the layouts a date is written in
Layouts == {"padded", "unpadded", "dashes", "trailing", "shortYear"}

\* n in two digits
TwoDigits(n) == <<Digit((n \div 10) % 10), Digit(n % 10)>>

\* the date string of a day, a month and a year in a layout
DateText(layout, d, m, y) ==
  CASE layout = "padded" ->
         TwoDigits(d) \o <<"/">> \o TwoDigits(m) \o <<"/">> \o Digits(y)
    [] layout = "unpadded" ->
         Digits(d) \o <<"/">> \o Digits(m) \o <<"/">> \o Digits(y)
    [] layout = "dashes" ->
         TwoDigits(d) \o <<"-">> \o TwoDigits(m) \o <<"-">> \o Digits(y)
    [] layout = "trailing" ->
         TwoDigits(d) \o <<"/">> \o TwoDigits(m) \o <<"/">> \o Digits(y) \o <<" ">>
    [] layout = "shortYear" ->
         TwoDigits(d) \o <<"/">> \o TwoDigits(m) \o <<"/">> \o TwoDigits(y)

\* the date strings given, each with what it was written from
DateInputs ==
  { [text |-> DateText(l, d, m, y), layout |-> l, day |-> d, month |-> m,
     year |-> y]
    : l \in Layouts, d \in 0..MaxDay, m \in 0..MaxMonth, y \in Years }

DateInit ==
  /\ EngineIdle
  /\ callee = "none"
  /\ callArg \in DateInputs
  /\ callResult = <<>>

IsValidAustralianDateCall ==
  /\ callee = "none"
  /\ callee' = "isValidAustralianDate"
  /\ callResult' = [validator |-> isValidAustralianDate(callArg.text),
                    formatter |-> formatterIsValidAustralianDate(callArg.text)]
  /\ UNCHANGED <<callArg, exceptCall>>

DateNext == IsValidAustralianDateCall

SpecDate == DateInit /\ [][DateNext]_vars

\* the days of a month of the Gregorian calendar
CalendarDays(m, y) ==
  IF m \in {4, 6, 9, 11} THEN 30
  ELSE IF m # 2 THEN 31
  ELSE IF y % 400 = 0 \/ (y % 4 = 0 /\ y % 100 # 0) THEN 29
  ELSE 28

\* the string is the zero-padded DD/MM/YYYY form of a calendar date of the
\* years 1900 to 2100
IsCalendarDate(a) ==
  /\ a.text = DateText("padded", a.day, a.month, a.year)
  /\ 1 <= a.month /\ a.month <= 12
  /\ 1900 <= a.year /\ a.year <= 2100
  /\ 1 <= a.day /\ a.day <= CalendarDays(a.month, a.year)

\* C11: both date validators accept the zero-padded DD/MM/YYYY string of
\* every calendar date of 1900..2100 (29 February in Gregorian leap years
\* only) and reject every string with an out-of-range day, month or year or
\* of another form
C11_AcceptsExactlyCalendarDates ==
  callee = "isValidAustralianDate" =>
    /\ callResult.validator <=> IsCalendarDate(callArg)
    /\ callResult.formatter <=> IsCalendarDate(callArg)

\* 29/02/2000, a leap day of a century year, was given and accepted
C11_Witness ==
  /\ callee = "isValidAustralianDate"
  /\ callArg.text = <<"2", "9", "/", "0", "2", "/", "2", "0", "0", "0">>
  /\ callResult.validator
  /\ callResult.formatter


(***************************************************************************)
(* Specification SpecHeaders: validateCSVHeaders on header lists that are  *)
(* the template's, or the template's with a column removed, replaced or    *)
(* inserted                                                                *)
(***************************************************************************)
\* the error for a wrong number of columns
CountError(found) ==
  [field |-> "Headers", kind |-> "count", column |-> 0, expected |-> "",
   found |-> "", expectedCount |-> Len(XERO_CSV_HEADERS), foundCount |-> found]

\* the error 'Column i + 1 should be "expected", found "actual"'
ColumnError(column, expected, actual) ==
  [field |-> "Headers", kind |-> "column", column |-> column,
   expected |-> expected, found |-> actual, expectedCount |-> 0,
   foundCount |-> 0]

\* headers[i] || 'missing', for the 1-based position i
ActualOrMissing(headers, i) ==
  IF i > Len(headers) \/ headers[i] = "" THEN "missing" ELSE headers[i]

\* the errors of the loop over the template's columns, from position i on
RECURSIVE ColumnErrors(_, _)
ColumnErrors(headers, i) ==
  IF i > Len(XERO_CSV_HEADERS) THEN <<>>
  ELSE (IF i > Len(headers) \/ headers[i] # XERO_CSV_HEADERS[i]
          THEN <<ColumnError(i, XERO_CSV_HEADERS[i], ActualOrMissing(headers, i))>>
          ELSE <<>>)
         \o ColumnErrors(headers, i + 1)

validateCSVHeaders(headers) ==
  LET errors ==
        (IF Len(headers) # Len(XERO_CSV_HEADERS)
           THEN <<CountError(Len(headers))>>
           ELSE <<>>)
        \o ColumnErrors(headers, 1)
  IN  [isValid |-> Len(errors) = 0, errors |-> errors, warnings |-> <<>>]

\* the list without its k-th element
RemoveAt(list, k) == SubSeq(list, 1, k - 1) \o SubSeq(list, k + 1, Len(list))

\* the column names header lists are made of
HeaderNames ==
  {XERO_CSV_HEADERS[i] : i \in 1..Len(XERO_CSV_HEADERS)} \cup {"Extra", ""}

\* the header lists given
HeaderLists ==
  {XERO_CSV_HEADERS}
    \cup {RemoveAt(XERO_CSV_HEADERS, k) : k \in 1..Len(XERO_CSV_HEADERS)}
    \cup {[XERO_CSV_HEADERS EXCEPT ![k] = n] :
            k \in 1..Len(XERO_CSV_HEADERS), n \in HeaderNames}
    \cup {SubSeq(XERO_CSV_HEADERS, 1, k) \o <<"Extra">>
            \o SubSeq(XERO_CSV_HEADERS, k + 1, Len(XERO_CSV_HEADERS)) :
            k \in 0..Len(XERO_CSV_HEADERS)}

HeadersInit ==
  /\ EngineIdle
  /\ callee = "none"
  /\ callArg \in HeaderLists
  /\ callResult = <<>>

ValidateCSVHeadersCall ==
  /\ callee = "none"
  /\ callee' = "validateCSVHeaders"
  /\ callResult' = validateCSVHeaders(callArg)
  /\ UNCHANGED <<callArg, exceptCall>>

HeadersNext == ValidateCSVHeadersCall

SpecHeaders == HeadersInit /\ [][HeadersNext]_vars

\* C12: for the template's header list with the column at one position k
\* removed, validateCSVHeaders returns exactly one error, naming position k
\* and the expected column name; for the template's own list, no error
C12_OneErrorForMissingColumn ==
  callee = "validateCSVHeaders" =>
    /\ callArg = XERO_CSV_HEADERS => Len(callResult.errors) = 0
    /\ \A k \in 1..Len(XERO_CSV_HEADERS) :
         callArg = RemoveAt(XERO_CSV_HEADERS, k) =>
           /\ Len(callResult.errors) = 1
           /\ callResult.errors[1].column = k
           /\ callResult.errors[1].expected = XERO_CSV_HEADERS[k]


(***************************************************************************)
(* Specification SpecValidateBatch: validateInvoices on batches of records *)
(* that share or do not share invoice numbers and pass or fail validation  *)
(***************************************************************************)
\* records with an empty or one of two invoice numbers, with or without a
\* contact name, with one sound line item or none
BatchRecords ==
  { Invoice(n, c, Date_15_03_2024, items, "f1.pdf")
    : n \in {<<>>, <<"a">>, <<"b">>}, c \in {<<>>, <<"x">>},
      items \in {<<>>, Items_1x10} }

ValidateBatchInit ==
  /\ EngineIdle
  /\ callee = "none"
  /\ callArg \in Batches(BatchRecords, MaxValBatch)
  /\ callResult = <<>>

ValidateInvoicesCall ==
  /\ callee = "none"
  /\ callee' = "validateInvoices"
  /\ callResult' = validateInvoices(callArg)
  /\ UNCHANGED <<callArg, exceptCall>>

ValidateBatchNext == ValidateInvoicesCall

SpecValidateBatch == ValidateBatchInit /\ [][ValidateBatchNext]_vars

\* the positions of the batch that carry the invoice number
Carrying(records, number) ==
  {i \in 1..Len(records) : records[i].invoiceNumber = number}

\* the positions of the issues that report the number as a duplicate
DuplicateReports(issues, number) ==
  {i \in 1..Len(issues) :
     /\ issues[i].message = "Duplicate invoice number"
     /\ issues[i].invoiceNumber = number}

\* C13: validateInvoices(batch).isValid is true iff every record passes
\* validateInvoice on its own; an invoice number carried by more than one
\* record adds exactly one warning, naming the number and its count, and
\* never an error; a number carried once adds none
C13_DuplicateNumbersOnlyWarn ==
  callee = "validateInvoices" =>
    /\ callResult.isValid <=>
         \A i \in 1..Len(callArg) : validateInvoice(callArg[i]).isValid
    /\ \A i \in 1..Len(callArg) :
         LET number == callArg[i].invoiceNumber
             reports == DuplicateReports(callResult.warnings, number)
         IN  /\ DuplicateReports(callResult.errors, number) = {}
             /\ IF Cardinality(Carrying(callArg, number)) > 1
                  THEN /\ Cardinality(reports) = 1
                       /\ \A w \in reports :
                            callResult.warnings[w].item
                              = Cardinality(Carrying(callArg, number))
                  ELSE reports = {}

\* a batch of records that each pass, two of them with the same number, was
\* validated: valid, with the duplicate reported as a warning
C13_Witness ==
  /\ callee = "validateInvoices"
  /\ Len(callArg) = 3
  /\ callArg[1].invoiceNumber = <<"a">>
  /\ callArg[3].invoiceNumber = <<"a">>
  /\ callArg[2].invoiceNumber = <<"b">>
  /\ callResult.isValid
  /\ DuplicateReports(callResult.warnings, <<"a">>) # {}


(***************************************************************************)
(* AmountVerifier.  A line total and a calculated total x are held as the  *)
(* integer 100 * x; an expected total, a discrepancy and the tolerance as  *)
(* the integer 10000 * x.  A value that may be null is a sequence of at    *)
(* most one element.                                                       *)
(***************************************************************************)
\* this.toleranceAmount, by default 0.10
toleranceAmount == 1000

\* this.gstRate, 0.10, as a percentage
gstRatePercent == 10

\* the index after the longest run of characters of cs that starts at i
RECURSIVE RunEnd(_, _, _)
RunEnd(str, i, cs) ==
  IF i <= Len(str) /\ str[i] \in cs THEN RunEnd(str, i + 1, cs) ELSE i

\* the first capture of /total[:\s]+\$?([\d,]+\.?\d*)/i matched at
\* position p of the string, if it matches there
TotalMatchAt(str, p) ==
  LET lower == toLowerCase(str)
      sepFrom == p + 5
      sepTo == RunEnd(str, sepFrom, {":"} \cup Whitespace)
      numFrom == IF sepTo <= Len(str) /\ str[sepTo] = "$" THEN sepTo + 1 ELSE sepTo
      numTo == RunEnd(str, numFrom, DigitChars \cup {","})
      fracFrom == IF numTo <= Len(str) /\ str[numTo] = "." THEN numTo + 1 ELSE numTo
      fracTo == RunEnd(str, fracFrom, DigitChars)
  IN  IF /\ p + 4 <= Len(str)
         /\ SubSeq(lower, p, p + 4) = <<"t", "o", "t", "a", "l">>
         /\ sepTo > sepFrom
         /\ numTo > numFrom
        THEN <<SubSeq(str, numFrom, fracTo - 1)>>
        ELSE <<>>

\* warning.match(...)[1]: the capture at the leftmost position that matches
RECURSIVE TotalMatchFrom(_, _)
TotalMatchFrom(str, p) ==
  IF p > Len(str) THEN <<>>
  ELSE IF TotalMatchAt(str, p) # <<>> THEN TotalMatchAt(str, p)
  ELSE TotalMatchFrom(str, p + 1)

\* str.replace(/,/g, '')
RemoveCommas(str) == SelectSeq(str, LAMBDA c : c # ",")

\* parseFloat of a string of digits with at most one point, as 10000 * x;
\* NaN when it has no digit before the point and none after it.  The
\* fractions of the model have at most four digits.
parseFloatTotal(str) ==
  LET intTo == RunEnd(str, 1, DigitChars)
      whole == SubSeq(str, 1, intTo - 1)
      fracFrom == IF intTo <= Len(str) /\ str[intTo] = "." THEN intTo + 1 ELSE intTo
      fracTo == RunEnd(str, fracFrom, DigitChars)
      frac == SubSeq(str, fracFrom, fracTo - 1)
      frac4 == SubSeq(frac \o <<"0", "0", "0", "0">>, 1, 4)
  IN  IF whole = <<>> /\ (frac = <<>> \/ fracFrom = intTo) THEN NaN
      ELSE 10000 * parseInt(whole) + parseInt(frac4)

\* a reading that takes the word total alone for a total of 0
extractExpectedTotal_TotalWord(warnings) ==
  IF \E i \in 1..Len(warnings) : \E p \in 1..Len(warnings[i]) :
       /\ p + 4 <= Len(warnings[i])
       /\ SubSeq(toLowerCase(warnings[i]), p, p + 4) = <<"t", "o", "t", "a", "l">>
    THEN <<0>> ELSE <<>>

\* the expected total the warnings give, from the first warning on
RECURSIVE extractExpectedTotal(_)
extractExpectedTotal(warnings) ==
  IF warnings = <<>> THEN <<>>
  ELSE LET totalMatch == TotalMatchFrom(Head(warnings), 1)
       IN  IF /\ totalMatch # <<>>
              /\ ~isNaN(parseFloatTotal(RemoveCommas(totalMatch[1])))
             THEN <<parseFloatTotal(RemoveCommas(totalMatch[1]))>>
             ELSE extractExpectedTotal(Tail(warnings))


\* an entry of LineItemVerification.issues: what it reports, the amount it
\* quotes and the amount it proposes, if any
LineIssue(kind, amount, proposed) ==
  [kind |-> kind, amount |-> amount, proposed |-> proposed]

\* str.replace(/7/g, '1')
ReplaceSevens(str) == [i \in 1..Len(str) |-> IF str[i] = "7" THEN "1" ELSE str[i]]

\* str.includes(c)
Includes(str, c) == \E i \in 1..Len(str) : str[i] = c

\* /00\.00$/.test(str)
EndsIn00Point00(str) ==
  /\ Len(str) >= 5
  /\ SubSeq(str, Len(str) - 4, Len(str)) = <<"0", "0", ".", "0", "0">>

\* 'Unit amount $a might be OCR error. Did you mean $b?'
MisreadIssue(amountStr) == LineIssue("misread", amountStr, ReplaceSevens(amountStr))

detectOCRMisreads(unitAmount, quantity) ==
  LET amountStr == toFixed2(Times(100, unitAmount))
  IN  (IF Includes(amountStr, "7") /\ ~Includes(amountStr, "1")
         THEN <<MisreadIssue(amountStr)>>
         ELSE <<>>)
      \o (IF EndsIn00Point00(amountStr) /\ ~isNaN(unitAmount) /\ unitAmount > 10000
            THEN <<LineIssue("decimalPlacement", <<>>, <<>>)>>
            ELSE <<>>)

\* Math.round(quantityCents * unitAmountCents / 100), the line total in
\* cents: Math.round rounds a half up
LineTotalCents(quantity, unitAmount) ==
  IF isNaN(quantity) \/ isNaN(unitAmount) THEN NaN
  ELSE (quantity * unitAmount + 50) \div 100

\* verifyLineItem for the item at the 1-based position i
verifyLineItem(item, i) ==
  LET q == item.quantity
      u == item.unitAmount
      issues ==
        (IF isNaN(q) \/ q <= 0
           THEN <<LineIssue("invalidQuantity", <<>>, <<>>)>> ELSE <<>>)
        \o (IF isNaN(u)
              THEN <<LineIssue("invalidUnitAmount", <<>>, <<>>)>> ELSE <<>>)
        \o (IF ~isNaN(u) /\ u > 100000000
              THEN <<LineIssue("highUnitAmount", toFixed2(100 * u), <<>>)>>
              ELSE <<>>)
        \o (IF ~isNaN(u) /\ u < 0
              THEN <<LineIssue("negativeUnitAmount", toFixed2(100 * u), <<>>)>>
              ELSE <<>>)
        \o (IF ~isNaN(q) /\ q < 0
              THEN <<LineIssue("negativeQuantity", <<>>, <<>>)>> ELSE <<>>)
        \o detectOCRMisreads(u, q)
  IN  [index |-> i, description |-> item.description, quantity |-> q,
       unitAmount |-> u, lineTotal |-> LineTotalCents(q, u),
       hasIssues |-> Len(issues) > 0, issues |-> issues]

\* the sum of the line totals of the details, in cents
RECURSIVE SumLineTotals(_)
SumLineTotals(details) ==
  IF details = <<>> THEN 0
  ELSE Plus(Head(details).lineTotal, SumLineTotals(Tail(details)))

\* Math.abs(calculatedTotal - expectedTotal), as 10000 * x
Discrepancy(calculatedTotal, expectedTotal) ==
  IF expectedTotal = <<>> THEN 0
  ELSE IF isNaN(calculatedTotal) THEN NaN
  ELSE Abs(100 * calculatedTotal - expectedTotal[1])

\* discrepancy > this.toleranceAmount on doubles.  The difference of two
\* doubles whose decimal values differ by exactly 0.10 is a double just
\* below or just above the double 0.10 (20 - 19.9 is above it, 10.1 - 10
\* below it); which one is the rounding given.
ExceedsTolerance(discrepancy, rounding) ==
  /\ ~isNaN(discrepancy)
  /\ \/ discrepancy > toleranceAmount
     \/ discrepancy = toleranceAmount /\ rounding = "above"

\* discrepancy <= this.toleranceAmount on doubles; false for NaN
WithinTolerance(discrepancy, rounding) ==
  /\ ~isNaN(discrepancy)
  /\ ~ExceedsTolerance(discrepancy, rounding)

Suggestion(kind, n) == [kind |-> kind, value |-> n]

generateSuggestions(invoice, lineDetails, calculatedTotal, expectedTotal, discrepancy, rounding) ==
  LET gstAmount == gstRatePercent * calculatedTotal
      issueCount ==
        Cardinality({i \in 1..Len(lineDetails) : lineDetails[i].hasIssues})
  IN  (IF expectedTotal # <<>> /\ ExceedsTolerance(discrepancy, rounding)
         THEN <<Suggestion("discrepancy", discrepancy)>>
              \o (IF Abs(discrepancy - gstAmount) < 1000
                    THEN <<Suggestion("matchesGST", gstAmount)>> ELSE <<>>)
              \o (IF discrepancy % 100000 = 0 /\ discrepancy < 1000000
                    THEN <<Suggestion("multipleOf10", 0)>> ELSE <<>>)
         ELSE <<>>)
      \o (IF issueCount > 0 THEN <<Suggestion("lineIssues", issueCount)>> ELSE <<>>)
      \o (IF Len(invoice.lineItems) = 0
            THEN <<Suggestion("noLineItems", 0)>> ELSE <<>>)
      \o (IF invoice.extractionConfidence < 70
            THEN <<Suggestion("lowConfidence", invoice.extractionConfidence)>>
            ELSE <<>>)

verifyInvoice(invoice, rounding) ==
  LET lineDetails ==
        [i \in 1..Len(invoice.lineItems) |-> verifyLineItem(invoice.lineItems[i], i)]
      calculatedTotal == SumLineTotals(lineDetails)
      expectedTotal == extractExpectedTotal(invoice.warnings)
      discrepancy == Discrepancy(calculatedTotal, expectedTotal)
  IN  [invoiceNumber |-> invoice.invoiceNumber,
       calculatedTotal |-> calculatedTotal,
       expectedTotal |-> expectedTotal,
       discrepancy |-> discrepancy,
       isValid |-> expectedTotal = <<>> \/ WithinTolerance(discrepancy, rounding),
       lineItemsCount |-> Len(invoice.lineItems),
       details |-> lineDetails,
       suggestions |-> generateSuggestions(invoice, lineDetails, calculatedTotal,
                                           expectedTotal, discrepancy, rounding)]


(***************************************************************************)
(* Specification SpecVerify: verifyInvoice on records with sound and       *)
(* unsound line items, with and without a total among their warnings       *)
(***************************************************************************)
\* warnings as the extractor words them; a warning is a string
Warning_Total_10_00 == <<"T", "o", "t", "a", "l", ":", " ", "1", "0", ".", "0", "0">>
Warning_Total_10_10 == <<"T", "o", "t", "a", "l", ":", " ", "1", "0", ".", "1", "0">>
Warning_Total_10_11 == <<"T", "o", "t", "a", "l", ":", " ", "1", "0", ".", "1", "1">>
Warning_Total_19_90 == <<"T", "o", "t", "a", "l", ":", " ", "1", "9", ".", "9", "0">>
Warning_TOTAL_Dollar == <<"T", "O", "T", "A", "L", " ", "$", "7", "1", ".", "1">>
Warning_Subtotal == <<"S", "u", "b", "t", "o", "t", "a", "l", ":", "TAB", "1", ",", "0", ".", "0", "0">>
Warning_Total_Commas == <<"T", "o", "t", "a", "l", ":", " ", ",">>
Warning_NoLineItems == <<"N", "o", " ", "l", "i", "n", "e", " ", "i", "t", "e", "m", "s">>

\* the warning lists of the verified records
VerifyWarnings ==
  { <<>>, <<Warning_Total_10_00>>, <<Warning_Total_10_10>>,
    <<Warning_Total_10_11>>, <<Warning_NoLineItems, Warning_TOTAL_Dollar>>,
    <<Warning_Subtotal>>, <<Warning_Total_Commas>>, <<Warning_Total_19_90>>,
    <<Warning_Total_Commas, Warning_Total_10_00>> }

\* line items: 1 x 10.00, 1 x 71.00, 2 x 5.05, 1 x 20.00, a NaN quantity,
\* a zero quantity, a negative unit amount, 1 x 70.00
VerifyLineItems ==
  { LineItem(<<"a">>, 100, 1000), LineItem(<<"a">>, 100, 7100),
    LineItem(<<"a">>, 200, 505), LineItem(<<"a">>, 100, 2000),
    LineItem(<<"a">>, NaN, 1000), LineItem(<<"a">>, 0, 1000),
    LineItem(<<"a">>, 100, -10), LineItem(<<"a">>, 100, 7000) }

VerifyInvoices ==
  { [Invoice(<<"a">>, <<"x">>, Date_15_03_2024, items, "f1.pdf")
       EXCEPT !.warnings = w, !.extractionConfidence = c]
    : items \in Batches(VerifyLineItems, MaxLineItems), w \in VerifyWarnings,
      c \in {90, 69} }

\* how the subtraction of the totals rounds in doubles
Roundings == {"below", "above"}

VerifyInit ==
  /\ EngineIdle
  /\ callee = "none"
  /\ callArg \in VerifyInvoices
  /\ callResult = <<>>

VerifyInvoiceCall ==
  /\ callee = "none"
  /\ callee' = "verifyInvoice"
  /\ \E rounding \in Roundings : callResult' = verifyInvoice(callArg, rounding)
  /\ UNCHANGED <<callArg, exceptCall>>

VerifyNext == VerifyInvoiceCall

SpecVerify == VerifyInit /\ [][VerifyNext]_vars

\* |calculated - expected| > 0.10, in decimal arithmetic
DecimalBeyondTolerance(result) ==
  /\ result.expectedTotal # <<>>
  /\ ~isNaN(result.calculatedTotal)
  /\ Abs(100 * result.calculatedTotal - result.expectedTotal[1]) > 1000

\* C14: verifyInvoice reports isValid = false iff an expected total was
\* recovered and |calculatedTotal - expectedTotal| > 0.10: a discrepancy of
\* exactly 0.10 is valid, a record without a recoverable expected total is
\* valid with discrepancy 0, and line issues never make a record invalid
C14_InvalidIffBeyondTolerance ==
  callee = "verifyInvoice" =>
    /\ ~callResult.isValid <=> DecimalBeyondTolerance(callResult)
    /\ callResult.expectedTotal = <<>> =>
         callResult.isValid /\ callResult.discrepancy = 0


\* the issues of the line that propose the amount
Proposals(detail, amount) ==
  {k \in 1..Len(detail.issues) :
     detail.issues[k].kind = "misread" /\ detail.issues[k].proposed = amount}

\* C16: for a line item whose unit amount is 71.00, verifyInvoice emits an
\* advisory suggestion proposing 11.00 and alters no stored value: the
\* record given is as it was and the unit amount reported for the line is
\* still 71.00
C16_SuggestsElevenForSeventyOne ==
  callee = "verifyInvoice" =>
    /\ callArg \in VerifyInvoices
    /\ \A i \in 1..Len(callArg.lineItems) :
         callArg.lineItems[i].unitAmount = 7100 =>
           /\ callResult.details[i].unitAmount = 7100
           /\ Proposals(callResult.details[i], <<"1", "1", ".", "0", "0">>) # {}


(***************************************************************************)
(* Specification SpecVerifyBatch: verifyBatch on batches of records that   *)
(* verify, fail verification or have line items without a total            *)
(***************************************************************************)
\* the sum of the discrepancies of the results, as 10000 * x
RECURSIVE SumDiscrepancies(_)
SumDiscrepancies(results) ==
  IF results = <<>> THEN 0
  ELSE Plus(Head(results).discrepancy, SumDiscrepancies(Tail(results)))

\* Math.round(x * 100) / 100 of a value held as 10000 * x, as 100 * x
RoundToCents(t) == IF isNaN(t) THEN NaN ELSE (t + 50) \div 100

\* mutant: the loop stops after the first record that is not valid
VerifyEach_StopAtInvalid(invoices, roundings) ==
  LET all == [i \in 1..Len(invoices) |-> verifyInvoice(invoices[i], roundings[i])]
      bad == {i \in 1..Len(all) : ~all[i].isValid}
  IN  IF bad = {} THEN all
      ELSE SubSeq(all, 1, CHOOSE i \in bad : \A j \in bad : i <= j)

\* the results of the loop, record by record
VerifyEach(invoices, roundings) ==
  [i \in 1..Len(invoices) |-> verifyInvoice(invoices[i], roundings[i])]

\* verifyBatch, the subtraction of record i rounding as roundings[i]
verifyBatch(invoices, roundings) ==
  LET results == VerifyEach(invoices, roundings)
      validCount == Cardinality({i \in 1..Len(results) : results[i].isValid})
  IN  [totalInvoices |-> Len(invoices),
       validInvoices |-> validCount,
       invalidInvoices |-> Len(invoices) - validCount,
       totalDiscrepancy |-> RoundToCents(SumDiscrepancies(results)),
       results |-> results]

\* records with one of two numbers, a sound line item or one with a NaN
\* quantity, and no total, a matching one, one at the tolerance or one
\* beyond it
BatchVerifyInvoices ==
  { [Invoice(n, <<"x">>, Date_15_03_2024, items, "f1.pdf") EXCEPT !.warnings = w]
    : n \in {<<"a">>, <<"b">>},
      items \in {<<LineItem(<<"a">>, 100, 1000)>>, <<LineItem(<<"a">>, NaN, 1000)>>,
                 <<LineItem(<<"a">>, 100, 2000)>>},
      w \in {<<>>, <<Warning_Total_10_00>>, <<Warning_Total_10_11>>,
             <<Warning_Total_19_90>>} }

VerifyBatchInit ==
  /\ EngineIdle
  /\ callee = "none"
  /\ callArg \in Batches(BatchVerifyInvoices, MaxVerifyBatch)
  /\ callResult = <<>>

VerifyBatchCall ==
  /\ callee = "none"
  /\ callee' = "verifyBatch"
  /\ \E roundings \in [1..Len(callArg) -> Roundings] :
       callResult' = verifyBatch(callArg, roundings)
  /\ UNCHANGED <<callArg, exceptCall>>

VerifyBatchNext == VerifyBatchCall

SpecVerifyBatch == VerifyBatchInit /\ [][VerifyBatchNext]_vars

\* the sum of the discrepancies reported, NaN if one of them is NaN
RECURSIVE ReportedDiscrepancy(_, _)
ReportedDiscrepancy(results, i) ==
  IF i > Len(results) THEN 0
  ELSE IF results[i].discrepancy = NaN \/ ReportedDiscrepancy(results, i + 1) = NaN
    THEN NaN
  ELSE results[i].discrepancy + ReportedDiscrepancy(results, i + 1)

\* C15: verifyBatch has one result per input record, in input order, each
\* the verification of its record whatever the outcome of the earlier
\* ones; validInvoices + invalidInvoices = totalInvoices = the number of
\* records; validInvoices counts the results with isValid = true;
\* totalDiscrepancy is the sum of the results' discrepancies rounded to
\* two decimals
C15_BatchCountsEveryRecord ==
  callee = "verifyBatch" =>
    /\ Len(callResult.results) = Len(callArg)
    /\ \A i \in 1..Len(callArg) :
         \E r \in Roundings : callResult.results[i] = verifyInvoice(callArg[i], r)
    /\ callResult.totalInvoices = Len(callArg)
    /\ callResult.validInvoices + callResult.invalidInvoices
         = callResult.totalInvoices
    /\ callResult.validInvoices
         = Cardinality({i \in 1..Len(callResult.results) :
                          callResult.results[i].isValid})
    /\ LET total == ReportedDiscrepancy(callResult.results, 1)
       IN  IF total = NaN THEN callResult.totalDiscrepancy = NaN
           ELSE Abs(100 * callResult.totalDiscrepancy - total) <= 50

\* a batch whose first record is beyond the tolerance and whose second
\* verifies was verified: two results, one valid, one not
C15_Witness ==
  /\ callee = "verifyBatch"
  /\ Len(callArg) = 2
  /\ ~callResult.results[1].isValid
  /\ callResult.results[2].isValid
  /\ callResult.validInvoices = 1
  /\ callResult.invalidInvoices = 1
  /\ callResult.totalDiscrepancy = 11


(***************************************************************************)
(* Specification SpecFormat: formatInvoicesToCSVRows on batches of         *)
(* invoices with no, one or several line items                             *)
(***************************************************************************)
\* two line items told apart by their descriptions
FormatLineItems ==
  {LineItem(<<"a">>, 100, 1000), LineItem(<<"b">>, 250, 505)}

\* an invoice whose fields need no sanitizing and one whose contact name
\* does, with a reference
FormatInvoices ==
  { Invoice(<<"a">>, <<"x">>, Date_15_03_2024, items, "f1.pdf")
    : items \in Batches(FormatLineItems, MaxLineItems) }
  \cup
  { [Invoice(<<"b">>, <<"=", "x">>, Date_15_04_2024, items, "f2.pdf")
       EXCEPT !.reference = <<"r", " ">>]
    : items \in Batches(FormatLineItems, MaxLineItems) }

FormatInit ==
  /\ EngineIdle
  /\ callee = "none"
  /\ callArg \in Batches(FormatInvoices, MaxFormatBatch)
  /\ callResult = <<>>

FormatInvoicesToCSVRowsCall ==
  /\ callee = "none"
  /\ callee' = "formatInvoicesToCSVRows"
  /\ callResult' = formatInvoicesToCSVRows(callArg)
  /\ UNCHANGED <<callArg, exceptCall>>

FormatNext == FormatInvoicesToCSVRowsCall

SpecFormat == FormatInit /\ [][FormatNext]_vars

\* the number of line items of the first j invoices
RECURSIVE ItemsBefore(_, _)
ItemsBefore(invoiceList, j) ==
  IF j = 0 THEN 0
  ELSE ItemsBefore(invoiceList, j - 1) + Len(invoiceList[j].lineItems)

\* C17: formatInvoicesToCSVRows emits one row per line item, in invoice
\* order and then line-item order; every row of an invoice repeats the
\* invoice's ContactName, InvoiceNumber, InvoiceDate, DueDate and Reference
\* (as the formatter writes them) and has exactly the ten template columns;
\* an invoice with no line items contributes no row
C17_OneRowPerLineItem ==
  callee = "formatInvoicesToCSVRows" =>
    /\ Len(callResult) = ItemsBefore(callArg, Len(callArg))
    /\ \A j \in 1..Len(callArg) : \A k \in 1..Len(callArg[j].lineItems) :
         LET row == callResult[ItemsBefore(callArg, j - 1) + k]
         IN  /\ DOMAIN row = {XERO_CSV_HEADERS[h] : h \in 1..Len(XERO_CSV_HEADERS)}
             /\ row.Description = callArg[j].lineItems[k].description
             /\ row.ContactName = sanitizeField(callArg[j].contactName)
             /\ row.InvoiceNumber = sanitizeField(callArg[j].invoiceNumber)
             /\ row.InvoiceDate = callArg[j].invoiceDate
             /\ row.DueDate = callArg[j].dueDate
             /\ row.Reference = sanitizeField(callArg[j].reference)

\* an invoice with no line items, then one with two, were formatted: two
\* rows, both of the second invoice
C17_Witness ==
  /\ callee = "formatInvoicesToCSVRows"
  /\ Len(callArg) = 2
  /\ callArg[1].lineItems = <<>>
  /\ Len(callArg[2].lineItems) = 2
  /\ callArg[2].lineItems[1] # callArg[2].lineItems[2]
  /\ Len(callResult) = 2
  /\ callResult[1].InvoiceNumber = callResult[2].InvoiceNumber
  /\ callResult[1].Description # callResult[2].Description


(***************************************************************************)
(* Specification SpecRoundTrip: a line item formatted to a row and the     *)
(* row's Quantity and UnitAmount read back by calculateTotals.  Unit       *)
(* amounts here have up to four decimals and are held as 10000 * x.        *)
(***************************************************************************)
\* formatCurrency of a unit amount held as 10000 * x
formatCurrencyFine(t) == IF isNaN(t) THEN <<"0", ".", "0", "0">> ELSE toFixed2(t)

\* parseFloat of a row's string, as 10000 * x: leading whitespace, a sign,
\* digits, a point and digits; NaN when no number is there
parseFloatRow(str) ==
  LET t == TrimStart(str)
      negative == t # <<>> /\ Head(t) = "-"
      u == IF t # <<>> /\ Head(t) \in {"+", "-"} THEN Tail(t) ELSE t
  IN  IF parseFloatIsNaN(str) THEN NaN
      ELSE IF negative THEN -parseFloatTotal(u)
      ELSE parseFloatTotal(u)

\* x || 0 on numbers
OrZero(x) == IF isNaN(x) THEN 0 ELSE x

\* Math.round(x * 100) of a value held as 10000 * x
ToCents(t) == (t + 50) \div 100

\* The running totals and half-cent line totals, among those the line
\* items of the specifications reach, for which the double
\* (currentTotal + lineTotal) * 100 lies below the half: 1.00 + 0.005 gives
\* 100.49999999999999 where 0 + 0.005 gives 0.5.  Pairs of the running
\* total in cents and the line total as 10000 * x.
HalfCentBelow ==
  {<<3, 50>>, <<100, 50>>, <<101, 50>>, <<102, 50>>, <<103, 50>>,
   <<201, 50>>, <<203, 50>>, <<0, 99950>>}

\* Math.round((currentTotal + lineTotal) * 100), in cents: the nearest
\* cent, and at a half cent what the doubles give
RoundRunningTotal(currentTotal, lineTotal) ==
  IF <<currentTotal, lineTotal>> \in HalfCentBelow
    THEN (100 * currentTotal + lineTotal) \div 100
    ELSE ToCents(100 * currentTotal + lineTotal)

\* calculateTotals: the totals by invoice number, in cents, row by row
RECURSIVE calculateTotalsFrom(_, _)
calculateTotalsFrom(totals, rows) ==
  IF rows = <<>> THEN totals
  ELSE LET row == Head(rows)
           quantityCents == ToCents(OrZero(parseFloatRow(row.Quantity)))
           unitAmountCents == ToCents(OrZero(parseFloatRow(row.UnitAmount)))
           lineTotal == quantityCents * unitAmountCents
           currentTotal ==
             IF MapHas(totals, row.InvoiceNumber)
               THEN MapGet(totals, row.InvoiceNumber) ELSE 0
           newTotal == RoundRunningTotal(currentTotal, lineTotal)
       IN  calculateTotalsFrom(MapSet(totals, row.InvoiceNumber, newTotal),
                               Tail(rows))

calculateTotals(rows) == calculateTotalsFrom(<<>>, rows)

\* the row formatSingleInvoice builds for a line item with such a unit
\* amount, on an invoice with sound fields
FineRowOf(lineItem) ==
  [RowOf(Invoice(<<"a">>, <<"x">>, Date_15_03_2024, <<>>, "f1.pdf"),
         LineItem(lineItem.description, lineItem.quantity, 0))
     EXCEPT !.UnitAmount = formatCurrencyFine(lineItem.unitAmount)]

\* line items: quantities NaN, 0, 0.5, 1, 2.5, 3 and 10; unit amounts NaN,
\* 0, 0.004, 0.01, 1.004, 1.50, 10.00 and 19.99
RoundTripLineItems ==
  { [description |-> <<"a">>, quantity |-> q, unitAmount |-> u]
    : q \in {NaN, 0, 50, 100, 250, 300, 1000},
      u \in {NaN, 0, 40, 100, 10040, 15000, 100000, 199900} }

RoundTripInit ==
  /\ EngineIdle
  /\ callee = "none"
  /\ callArg \in RoundTripLineItems
  /\ callResult = <<>>

FormatAndCalculateTotals ==
  /\ callee = "none"
  /\ callee' = "calculateTotals"
  /\ callResult' = [row |-> FineRowOf(callArg),
                    totals |-> calculateTotals(<<FineRowOf(callArg)>>)]
  /\ UNCHANGED <<callArg, exceptCall>>

RoundTripNext == FormatAndCalculateTotals

SpecRoundTrip == RoundTripInit /\ [][RoundTripNext]_vars

\* C18: for every line item, the product of the Quantity and UnitAmount
\* read back from its row differs from quantity * unitAmount by at most one
\* cent
C18_RoundTripWithinOneCent ==
  callee = "calculateTotals" =>
    /\ ~isNaN(callArg.quantity)
    /\ ~isNaN(callArg.unitAmount)
    /\ Abs(10000 * MapGet(callResult.totals, <<"a">>)
             - callArg.quantity * callArg.unitAmount) <= 10000


(***************************************************************************)
(* InvoiceParser.normalizeDate                                             *)
(***************************************************************************)
\* dateStr.replace(/[.\-]/g, '/')
UnifySeparators(str) ==
  [i \in 1..Len(str) |-> IF str[i] \in {".", "-"} THEN "/" ELSE str[i]]

\* str.split('/')
RECURSIVE SplitSlash(_)
SplitSlash(str) ==
  LET cut == RunEnd(str, 1, {c \in {str[i] : i \in 1..Len(str)} : c # "/"})
  IN  IF cut > Len(str) THEN <<str>>
      ELSE <<SubSeq(str, 1, cut - 1)>> \o SplitSlash(SubSeq(str, cut + 1, Len(str)))

\* str.padStart(2, '0')
PadStart2(str) ==
  IF Len(str) >= 2 THEN str
  ELSE IF Len(str) = 1 THEN <<"0">> \o str
  ELSE <<"0", "0">>

\* the four-digit year of a two-digit one; other years are kept
ExpandYear(year) ==
  IF Len(year) = 2
    THEN (IF parseInt(year) > 50 THEN <<"1", "9">> ELSE <<"2", "0">>) \o year
    ELSE year

\* an entry of the parser's warnings: its wording and the value it quotes
ParserWarning(text, quoted) == [text |-> text, quoted |-> quoted]

\* normalizeDate with the parser's warnings so far: the value returned and
\* the warnings afterwards
normalizeDate(dateStr, warnings) ==
  LET parts == SplitSlash(UnifySeparators(dateStr))
  IN  IF dateStr = <<>> THEN [value |-> <<>>, warnings |-> warnings]
      ELSE IF Len(parts) # 3
        THEN [value |-> dateStr,
              warnings |-> Append(warnings,
                                  ParserWarning("Invalid date format", dateStr))]
      ELSE [value |-> PadStart2(parts[1]) \o <<"/">> \o PadStart2(parts[2])
                        \o <<"/">> \o ExpandYear(parts[3]),
            warnings |-> warnings]

(***************************************************************************)
(* Specification SpecNormalize: normalizeDate on the values the date       *)
(* patterns of the extractor capture                                       *)
(***************************************************************************)
\* what \d{1,2}, \d{1,2} and \d{2,4} capture, and the separators
CapturedDays == {<<"5">>, <<"0", "5">>, <<"1", "5">>}
CapturedMonths == {<<"3">>, <<"0", "3">>, <<"1", "2">>}
CapturedYears ==
  {<<"2", "4">>, <<"5", "0">>, <<"5", "1">>, <<"9", "9">>, <<"2", "0", "2">>,
   <<"2", "0", "2", "4">>}
DateSeparators == {"/", "-", "."}

\* the values (\d{1,2}[\/\-\.]\d{1,2}[\/\-\.]\d{2,4}) captures
CapturedDates ==
  { d \o <<s1>> \o m \o <<s2>> \o y
    : d \in CapturedDays, m \in CapturedMonths, y \in CapturedYears,
      s1 \in DateSeparators, s2 \in DateSeparators }

NormalizeInit ==
  /\ EngineIdle
  /\ callee = "none"
  /\ callArg \in CapturedDates
  /\ callResult = <<>>

NormalizeDateCall ==
  /\ callee = "none"
  /\ callee' = "normalizeDate"
  /\ callResult' = normalizeDate(callArg, <<>>)
  /\ UNCHANGED <<callArg, exceptCall>>

NormalizeNext == NormalizeDateCall

SpecNormalize == NormalizeInit /\ [][NormalizeNext]_vars

\* the string has the form two digits / two digits / four digits
HasFormDDMMYYYY(str) ==
  /\ Len(str) = 10
  /\ \A i \in 1..10 :
       IF i \in {3, 6} THEN str[i] = "/"
       ELSE str[i] \in {"0", "1", "2", "3", "4", "5", "6", "7", "8", "9"}

\* C20: every date value the extractor captures is either returned in the
\* form DD/MM/YYYY or passed through unchanged with a warning appended; no
\* value leaves normalization in another form without a warning
C20_NormalizedOrWarned ==
  callee = "normalizeDate" =>
    \/ HasFormDDMMYYYY(callResult.value)
    \/ callResult.value = callArg /\ Len(callResult.warnings) > 0


(***************************************************************************)
(* InvoiceParser.parseInvoiceText.  The text is given by what the patterns *)
(* of the parser find in it: for each list of patterns the first capture   *)
(* of each pattern, if it matches (a sequence of at most one string), the  *)
(* line items the line pattern and the table reading find, and what the    *)
(* total patterns capture.                                                 *)
(***************************************************************************)
ParsedField(fieldValue, confidence, source) ==
  [value |-> fieldValue, confidence |-> confidence, source |-> source]

\* the captures, in pattern order, of the patterns with match && match[1]
Captures(matches) == SelectSeq(matches, LAMBDA m : m # <<>> /\ m[1] # <<>>)

\* the loop over the patterns of a field: the first capture, trimmed, with
\* the confidence of the field, or the empty field and the warning
ExtractFirst(matches, confidence, missing, warnings) ==
  IF Captures(matches) # <<>>
    THEN [field |-> ParsedField(Trim(Captures(matches)[1][1]), confidence, "regex"),
          warnings |-> warnings]
    ELSE [field |-> ParsedField(<<>>, 0, "not_found"),
          warnings |-> warnings \o missing]

extractInvoiceNumber(text, warnings) ==
  ExtractFirst(text.invoiceNumber, 90,
               <<ParserWarning("Could not extract invoice number", <<>>)>>, warnings)

extractInvoiceDate(text, warnings) ==
  ExtractFirst(text.invoiceDate, 85,
               <<ParserWarning("Could not extract invoice date", <<>>)>>, warnings)

extractDueDate(text, warnings) ==
  ExtractFirst(text.dueDate, 85,
               <<ParserWarning("Could not extract due date", <<>>)>>, warnings)

\* str starts with the word, letter case ignored
StartsWithIgnoreCase(str, word) ==
  Len(str) >= Len(word) /\ toLowerCase(SubSeq(str, 1, Len(word))) = word

isLikelyNotAName(name) ==
  \/ name # <<>> /\ \A i \in 1..Len(name) : name[i] \in DigitChars
  \/ \E word \in {<<"i", "n", "v", "o", "i", "c", "e">>, <<"d", "a", "t", "e">>, <<"t", "o", "t", "a", "l">>, <<"a", "m", "o", "u", "n", "t">>, <<"a", "b", "n">>, <<"g", "s", "t">>} : StartsWithIgnoreCase(name, word)

\* the captures that, trimmed, may be a name
NameCaptures(matches) ==
  SelectSeq(Captures(matches), LAMBDA m : ~isLikelyNotAName(Trim(m[1])))

extractContactName(text, warnings) ==
  ExtractFirst(NameCaptures(text.contactName), 75,
               <<ParserWarning("Could not extract contact name", <<>>)>>, warnings)

\* no warning is pushed when no reference pattern matches
extractReference(text, warnings) ==
  ExtractFirst(text.reference, 80, <<>>, warnings)

\* extractTotalAmount: the first capture parsed, in cents; 0 when no
\* pattern matches
extractTotalAmount(text) ==
  IF Captures(text.total) = <<>> THEN 0
  ELSE LET total == parseFloatRow(RemoveCommas(Captures(text.total)[1][1]))
       IN  IF isNaN(total) THEN NaN ELSE total \div 100

\* the line items the line pattern finds that pass the filter of the loop
FilteredLineMatches(lineMatches) ==
  SelectSeq(lineMatches,
            LAMBDA item : /\ item.description # <<>>
                          /\ ~isNaN(item.quantity)
                          /\ ~isNaN(item.unitAmount))

\* a reading in which the table contributes whatever the line pattern found
extractLineItems_TableAlways(text, warnings) ==
  [lineItems |-> FilteredLineMatches(text.lineMatches) \o text.tableItems,
   warnings |-> warnings]

extractLineItems(text, warnings) ==
  LET found == FilteredLineMatches(text.lineMatches)
      withAlt == IF found = <<>> THEN text.tableItems ELSE found
      totalAmount == extractTotalAmount(text)
  IN  IF withAlt # <<>> THEN [lineItems |-> withAlt, warnings |-> warnings]
      ELSE IF ~isNaN(totalAmount) /\ totalAmount > 0
        THEN [lineItems |->
                <<LineItem(<<"I", "n", "v", "o", "i", "c", "e", " ", "T", "o",
                             "t", "a", "l">>, 100, totalAmount)>>,
              warnings |->
                Append(warnings,
                       ParserWarning("Could not extract individual line items, using total amount",
                                     <<>>))]
      ELSE [lineItems |-> <<>>,
            warnings |->
              Append(warnings,
                     ParserWarning("Could not extract line items or total amount",
                                   <<>>))]

\* a sum in which the line items weigh nothing
calculateConfidence_WithoutLineItems(fields) ==
  (25 * fields.invoiceNumber.confidence + 20 * fields.invoiceDate.confidence
     + 15 * fields.dueDate.confidence + 25 * fields.contactName.confidence
     + 50) \div 100

\* Math.round of the weighted sum of the confidences
calculateConfidence(fields) ==
  (25 * fields.invoiceNumber.confidence + 20 * fields.invoiceDate.confidence
     + 15 * fields.dueDate.confidence + 25 * fields.contactName.confidence
     + 15 * (IF Len(fields.lineItems) > 0 THEN 90 ELSE 0) + 50) \div 100

\* parseInvoiceText: the record returned and the ParsedFields it was built
\* from.  A reference that is undefined is the empty string.
parseInvoiceText(text, sourceFile) ==
  LET number == extractInvoiceNumber(text, <<>>)
      date == extractInvoiceDate(text, number.warnings)
      due == extractDueDate(text, date.warnings)
      contact == extractContactName(text, due.warnings)
      ref == extractReference(text, contact.warnings)
      items == extractLineItems(text, ref.warnings)
      fields == [invoiceNumber |-> number.field, invoiceDate |-> date.field,
                 dueDate |-> due.field, contactName |-> contact.field,
                 reference |-> ref.field, lineItems |-> items.lineItems]
      normalDate == normalizeDate(date.field.value, items.warnings)
      normalDue == normalizeDate(due.field.value, normalDate.warnings)
  IN  [invoice |->
         [invoiceNumber |-> number.field.value,
          invoiceDate |-> normalDate.value,
          dueDate |-> normalDue.value,
          contactName |-> contact.field.value,
          reference |-> ref.field.value,
          lineItems |-> items.lineItems,
          sourceFile |-> sourceFile,
          extractionConfidence |-> calculateConfidence(fields),
          warnings |-> normalDue.warnings],
       fields |-> fields]


(***************************************************************************)
(* Specification SpecParse: parseInvoiceText on texts in which each        *)
(* pattern list matches or not                                             *)
(***************************************************************************)
NoMatch == <<>>

\* what the four invoice number patterns capture
NumberMatches ==
  {<<NoMatch, NoMatch, NoMatch, NoMatch>>,
   <<<<<<"A", "1">>>>, NoMatch, NoMatch, <<<<"A", "1">>>>>>,
   <<NoMatch, <<<<"B", "2", " ">>>>, NoMatch, NoMatch>>,
   <<NoMatch, NoMatch, NoMatch, <<<<"7">>>>>>}

\* what the three invoice date patterns capture
InvoiceDateMatches ==
  {<<NoMatch, NoMatch, NoMatch>>,
   <<<<<<"5", "/", "3", "/", "2", "4">>>>, NoMatch, NoMatch>>,
   <<NoMatch, NoMatch, <<<<"1", "5", "-", "0", "3", "-", "2", "0", "2", "4">>>>>>}

\* what the three due date patterns capture
DueDateMatches ==
  {<<NoMatch, NoMatch, NoMatch>>,
   <<NoMatch, <<<<"1", "5", ".", "0", "4", ".", "2", "0", "2", "4">>>>, NoMatch>>}

\* what the two contact name patterns capture
ContactMatches ==
  {<<NoMatch, NoMatch>>,
   <<<<<<"T", "o", "t", "a", "l", " ", "D", "u", "e">>>>, <<<<"A", "c", "m", "e">>>>>>,
   <<<<<<"1", "2", "3">>>>, NoMatch>>,
   <<NoMatch, <<<<"A", "c", "m", "e", " ">>>>>>}

\* what the two reference patterns capture
ReferenceMatches ==
  {<<NoMatch, NoMatch>>, <<<<<<"P", "O", "1">>>>, NoMatch>>}

\* the lines the line pattern matches: none, an item, a line whose
\* description is blank, a line whose quantity reads 0
LineMatches ==
  {<<>>,
   <<LineItem(<<"A">>, 200, 1050)>>,
   <<LineItem(<<>>, 100, 500)>>,
   <<LineItem(<<"C">>, 0, 500)>>}

\* the items the reading of the table gives: none, an item whose quantity
\* is "."
TableItems == {<<>>, <<LineItem(<<"B">>, NaN, 700)>>}

\* what the three total patterns capture
TotalMatches ==
  {<<NoMatch, NoMatch, NoMatch>>,
   <<NoMatch, <<<<"1", ",", "1", "5", "0", ".", "0", "0">>>>, NoMatch>>,
   <<<<<<",">>>>, NoMatch, NoMatch>>}

ParseTexts ==
  [invoiceNumber : NumberMatches, invoiceDate : InvoiceDateMatches,
   dueDate : DueDateMatches, contactName : ContactMatches,
   reference : ReferenceMatches, lineMatches : LineMatches,
   tableItems : TableItems, total : TotalMatches]

ParseInit ==
  /\ EngineIdle
  /\ callee = "none"
  /\ callArg \in ParseTexts
  /\ callResult = <<>>

ParseInvoiceTextCall ==
  /\ callee = "none"
  /\ callee' = "parseInvoiceText"
  /\ callResult' = parseInvoiceText(callArg, <<"a">>)
  /\ UNCHANGED <<callArg, exceptCall>>

ParseNext == ParseInvoiceTextCall

SpecParse == ParseInit /\ [][ParseNext]_vars

\* the target fields and the words a warning names each with
TargetFields ==
  {"invoiceNumber", "invoiceDate", "dueDate", "contactName", "reference"}

WarningsNaming ==
  [invoiceNumber |-> {"Could not extract invoice number"},
   invoiceDate |-> {"Could not extract invoice date"},
   dueDate |-> {"Could not extract due date"},
   contactName |-> {"Could not extract contact name"},
   reference |-> {"Could not extract reference", "Could not extract reference number"}]

\* no pattern of the field matches the text
NoStrategyMatches(text, field) == \A i \in 1..Len(text[field]) : text[field][i] = NoMatch

\* the record has the field empty, with confidence 0 and a warning naming it
EmittedMissing(result, field) ==
  /\ result.invoice[field] = <<>>
  /\ result.fields[field].confidence = 0
  /\ \E i \in 1..Len(result.invoice.warnings) :
       result.invoice.warnings[i].text \in WarningsNaming[field]

\* C19: for each target field (invoice number, invoice date, due date,
\* contact name, reference), when no pattern matches the text the record
\* parseInvoiceText returns has that field empty with confidence 0 and a
\* warning naming the field among its warnings
C19_MissingFieldEmptyAndWarned ==
  callee = "parseInvoiceText" =>
    \A field \in TargetFields :
      NoStrategyMatches(callArg, field) => EmittedMissing(callResult, field)


\* C21: every line item of every record parseInvoiceText returns has a
\* quantity greater than 0 and a unit amount that is a number, whichever
\* of the line pattern, the table reading and the total produced it
C21_ExtractedQuantitiesPositive ==
  callee = "parseInvoiceText" =>
    \A i \in 1..Len(callResult.invoice.lineItems) :
      /\ ~isNaN(callResult.invoice.lineItems[i].quantity)
      /\ callResult.invoice.lineItems[i].quantity > 0
      /\ ~isNaN(callResult.invoice.lineItems[i].unitAmount)


\* the texts of the warnings of a record
WarningTexts(invoice) ==
  {invoice.warnings[i].text : i \in 1..Len(invoice.warnings)}

\* no line of the text passes the line pattern and the table gives nothing
NoItemsFound(text) ==
  FilteredLineMatches(text.lineMatches) = <<>> /\ text.tableItems = <<>>

\* a positive total is detected in the text
PositiveTotal(text) ==
  ~isNaN(extractTotalAmount(text)) /\ extractTotalAmount(text) > 0

\* C23: the line items of the record are those of the line pattern when it
\* yields any; else those of the table when it yields any; else, when a
\* positive total is detected, exactly one item of quantity 1 whose unit
\* amount is that total, with the warning that individual items could not
\* be recovered; else none, with a warning; the item made from the total
\* exists in no other case
C23_ThreeTierFallback ==
  callee = "parseInvoiceText" =>
    LET items == callResult.invoice.lineItems
        fromLines == FilteredLineMatches(callArg.lineMatches)
        texts == WarningTexts(callResult.invoice)
    IN  /\ fromLines # <<>> => items = fromLines
        /\ fromLines = <<>> /\ callArg.tableItems # <<>> => items = callArg.tableItems
        /\ NoItemsFound(callArg) /\ PositiveTotal(callArg) =>
             /\ Len(items) = 1
             /\ items[1].quantity = 100
             /\ items[1].unitAmount = extractTotalAmount(callArg)
             /\ "Could not extract individual line items, using total amount" \in texts
        /\ NoItemsFound(callArg) /\ ~PositiveTotal(callArg) =>
             /\ items = <<>>
             /\ "Could not extract line items or total amount" \in texts
        /\ "Could not extract individual line items, using total amount" \in texts
             => NoItemsFound(callArg) /\ PositiveTotal(callArg)

\* a record whose one line item was made from the total of the text
C23_Witness ==
  /\ callee = "parseInvoiceText"
  /\ NoItemsFound(callArg) /\ PositiveTotal(callArg)
  /\ Len(callResult.invoice.lineItems) = 1
  /\ callResult.invoice.lineItems[1].unitAmount = 115000


\* the confidence of an invoice number found by the "Invoice Number:"
\* label, the first pattern
LabelConfidence ==
  extractInvoiceNumber([invoiceNumber |->
                          <<<<<<"A", "1">>>>, NoMatch, NoMatch, NoMatch>>],
                       <<>>).field.confidence

\* only the last pattern, the leading #token, matches the text
OnlyTokenMatches(text) ==
  /\ \A i \in 1..3 : text.invoiceNumber[i] = NoMatch
  /\ text.invoiceNumber[4] # NoMatch

\* C24: the invoice number of the record is the capture of the first
\* pattern, in the order of the list, that matches, and a number found by
\* the label pattern has a strictly higher confidence than one found only
\* by the leading #token pattern
C24_FirstMatchWinsLabelAboveToken ==
  callee = "parseInvoiceText" =>
    /\ \A i \in 1..4 :
         /\ callArg.invoiceNumber[i] # NoMatch
         /\ \A j \in 1..(i - 1) : callArg.invoiceNumber[j] = NoMatch
         => callResult.invoice.invoiceNumber = Trim(callArg.invoiceNumber[i][1])
    /\ OnlyTokenMatches(callArg) =>
         callResult.fields.invoiceNumber.confidence < LabelConfidence


\* 100 times the weighted sum 0.25, 0.20, 0.15, 0.25 of the confidences of
\* the fields and 0.15 of 90 for a record with a line item
WeightedSum100(fields, lineItemCount) ==
  25 * fields.invoiceNumber.confidence + 20 * fields.invoiceDate.confidence
    + 15 * fields.dueDate.confidence + 25 * fields.contactName.confidence
    + 15 * (IF lineItemCount > 0 THEN 90 ELSE 0)

\* C25: the confidence of the record is an integer in 0..100 nearest to the
\* weighted sum of the confidences of its fields and of 90 for the
\* presence of a line item
C25_ConfidenceIsRoundedWeightedSum ==
  callee = "parseInvoiceText" =>
    LET confidence == callResult.invoice.extractionConfidence
        sum100 == WeightedSum100(callResult.fields,
                                 Len(callResult.invoice.lineItems))
    IN  /\ confidence \in 0..100
        /\ 100 * confidence - sum100 \in -50..50

\* a record with every field found and a line item: 84.5 rounds to 85
C25_Witness ==
  /\ callee = "parseInvoiceText"
  /\ callResult.fields.invoiceNumber.confidence = 90
  /\ callResult.fields.invoiceDate.confidence = 85
  /\ callResult.fields.dueDate.confidence = 85
  /\ callResult.fields.contactName.confidence = 75
  /\ Len(callResult.invoice.lineItems) > 0
  /\ callResult.invoice.extractionConfidence = 85


(***************************************************************************)
(* Specification SpecParseVerify: verifyInvoice on the records             *)
(* parseInvoiceText returns                                                *)
(***************************************************************************)
\* the characters of the text of a warning
WarningChars(text) ==
  CASE text = "Could not extract invoice number" ->
      <<"C", "o", "u", "l", "d", " ", "n", "o", "t", " ", "e", "x", "t",
        "r", "a", "c", "t", " ", "i", "n", "v", "o", "i", "c", "e", " ",
        "n", "u", "m", "b", "e", "r">>
    [] text = "Could not extract invoice date" ->
      <<"C", "o", "u", "l", "d", " ", "n", "o", "t", " ", "e", "x", "t",
        "r", "a", "c", "t", " ", "i", "n", "v", "o", "i", "c", "e", " ",
        "d", "a", "t", "e">>
    [] text = "Could not extract due date" ->
      <<"C", "o", "u", "l", "d", " ", "n", "o", "t", " ", "e", "x", "t",
        "r", "a", "c", "t", " ", "d", "u", "e", " ", "d", "a", "t", "e">>
    [] text = "Could not extract contact name" ->
      <<"C", "o", "u", "l", "d", " ", "n", "o", "t", " ", "e", "x", "t",
        "r", "a", "c", "t", " ", "c", "o", "n", "t", "a", "c", "t", " ",
        "n", "a", "m", "e">>
    [] text = "Could not extract individual line items, using total amount" ->
      <<"C", "o", "u", "l", "d", " ", "n", "o", "t", " ", "e", "x", "t",
        "r", "a", "c", "t", " ", "i", "n", "d", "i", "v", "i", "d", "u",
        "a", "l", " ", "l", "i", "n", "e", " ", "i", "t", "e", "m", "s",
        ",", " ", "u", "s", "i", "n", "g", " ", "t", "o", "t", "a", "l",
        " ", "a", "m", "o", "u", "n", "t">>
    [] text = "Could not extract line items or total amount" ->
      <<"C", "o", "u", "l", "d", " ", "n", "o", "t", " ", "e", "x", "t",
        "r", "a", "c", "t", " ", "l", "i", "n", "e", " ", "i", "t", "e",
        "m", "s", " ", "o", "r", " ", "t", "o", "t", "a", "l", " ", "a",
        "m", "o", "u", "n", "t">>
    [] text = "Invalid date format" ->
      <<"I", "n", "v", "a", "l", "i", "d", " ", "d", "a", "t", "e", " ",
        "f", "o", "r", "m", "a", "t">>

\* the string pushed to this.warnings: the text, and what it quotes after
\* a colon
WarningString(warning) ==
  IF warning.text = "Invalid date format"
    THEN WarningChars(warning.text) \o <<":", " ">> \o warning.quoted
    ELSE WarningChars(warning.text)

\* the ExtractedInvoice returned, its warnings as strings
ExtractedInvoiceOf(result) ==
  [result.invoice EXCEPT
     !.warnings = [i \in 1..Len(result.invoice.warnings) |->
                     WarningString(result.invoice.warnings[i])]]

VerifyParsedCall ==
  /\ callee = "parseInvoiceText"
  /\ callee' = "verifyInvoice"
  /\ \E rounding \in Roundings :
       callResult' = [invoice |-> callResult.invoice,
                      fields |-> callResult.fields,
                      verification |->
                        verifyInvoice(ExtractedInvoiceOf(callResult), rounding)]
  /\ UNCHANGED <<callArg, exceptCall>>

ParseVerifyNext == ParseInvoiceTextCall \/ VerifyParsedCall

SpecParseVerify == ParseInit /\ [][ParseVerifyNext]_vars

\* C26: for every record parseInvoiceText returns, verifyInvoice finds no
\* expected total in its warnings, reports a discrepancy of 0 and finds the
\* record valid
C26_NoExpectedTotalFromExtractor ==
  callee = "verifyInvoice" =>
    /\ callResult.verification.expectedTotal = <<>>
    /\ callResult.verification.discrepancy = 0
    /\ callResult.verification.isValid

\* a record whose warnings speak of the total amount, verified
C26_Witness ==
  /\ callee = "verifyInvoice"
  /\ "Could not extract individual line items, using total amount"
       \in WarningTexts(callResult.invoice)
  /\ callResult.verification.calculatedTotal > 0
  /\ callResult.verification.isValid


\* the errors on the field LineItems among the issues
LineItemsReports(issues) ==
  {i \in 1..Len(issues) : issues[i].field = "LineItems"}

\* C27: a record without line items gets from validateInvoice an error on
\* the field LineItems and isValid = FALSE, and a batch that holds such a
\* record is invalid for validateInvoices, which reports that error
C27_NoLineItemsIsInvalid ==
  callee = "validateInvoices" =>
    \A i \in 1..Len(callArg) :
      callArg[i].lineItems = <<>> =>
        /\ LineItemsReports(validateInvoice(callArg[i]).errors) # {}
        /\ ~validateInvoice(callArg[i]).isValid
        /\ ~callResult.isValid
        /\ LineItemsReports(callResult.errors) # {}

\* a batch was validated in which the only fault is a record, with its
\* number and contact name, that has no line items
C27_Witness ==
  /\ callee = "validateInvoices"
  /\ \E i \in 1..Len(callArg) : callArg[i].lineItems = <<>>
  /\ ~callResult.isValid
  /\ \A e \in 1..Len(callResult.errors) : callResult.errors[e].field = "LineItems"


(***************************************************************************)
(* Specification SpecOrder: the total of an invoice by verifyInvoice and   *)
(* by calculateTotals on its rows, for its line items in every order       *)
(***************************************************************************)
\* line items 0.5 x 0.01, 1 x 1.00 and 3 x 0.01
OrderLineItems ==
  {LineItem(<<"a">>, 50, 1), LineItem(<<"b">>, 100, 100), LineItem(<<"c">>, 300, 1)}

OrderedItems == Batches(OrderLineItems, MaxOrderItems)

\* the invoice with these line items
OrderInvoice(items) == Invoice(<<"a">>, <<"x">>, Date_15_03_2024, items, "f1.pdf")

\* verifyInvoice(invoice).calculatedTotal, in cents
VerifiedTotal(items) == verifyInvoice(OrderInvoice(items), "below").calculatedTotal

\* calculateTotals(formatSingleInvoice(invoice)).get(invoiceNumber) || 0, in
\* cents
RowsTotal(items) ==
  LET totals == calculateTotals(formatSingleInvoice(OrderInvoice(items)))
  IN  IF MapHas(totals, <<"a">>) THEN MapGet(totals, <<"a">>) ELSE 0

OrderInit ==
  /\ EngineIdle
  /\ callee = "none"
  /\ callArg \in OrderedItems
  /\ callResult = <<>>

VerifyOrderedCall ==
  /\ callee = "none"
  /\ callee' = "verifyInvoice"
  /\ callResult' = [total |-> VerifiedTotal(callArg)]
  /\ UNCHANGED <<callArg, exceptCall>>

CalculateTotalsOrderedCall ==
  /\ callee = "none"
  /\ callee' = "calculateTotals"
  /\ callResult' = [total |-> RowsTotal(callArg)]
  /\ UNCHANGED <<callArg, exceptCall>>

OrderNext == VerifyOrderedCall \/ CalculateTotalsOrderedCall

SpecOrder == OrderInit /\ [][OrderNext]_vars

\* how often the line item occurs among the items
Occurrences(items, item) == Cardinality({i \in 1..Len(items) : items[i] = item})

\* the same line items, each as often, in whatever order
SameLineItems(a, b) ==
  \A item \in OrderLineItems : Occurrences(a, item) = Occurrences(b, item)

\* C22: the total verifyInvoice computes for the line items, and the total
\* calculateTotals computes from their rows, is the same for the same line
\* items in every other order
C22_TotalIndependentOfOrder ==
  /\ callee = "verifyInvoice" =>
       \A other \in OrderedItems :
         SameLineItems(other, callArg) => VerifiedTotal(other) = callResult.total
  /\ callee = "calculateTotals" =>
       \A other \in OrderedItems :
         SameLineItems(other, callArg) => RowsTotal(other) = callResult.total


(***************************************************************************)
(* Specification SpecAgree: the total of a record as the duplicate         *)
(* detector hashes it, as verifyInvoice computes it and as calculateTotals *)
(* computes it from the rows                                               *)
(***************************************************************************)
\* line items 0.3 x 0.01, 1 x 10.00, 2 x 2.50 and 1 x 1.99: no sum of their
\* products ends on a half cent
AgreeLineItems ==
  {LineItem(<<"a">>, 30, 1), LineItem(<<"b">>, 100, 1000),
   LineItem(<<"c">>, 200, 250), LineItem(<<"d">>, 100, 199)}

\* totalAmount.toFixed(2) of the fingerprint of the invoice
FingerprintTotal(items) ==
  toFixed2(createFingerprint(<<>>, OrderInvoice(items)).fp.totalAmount)

AgreeInit ==
  /\ EngineIdle
  /\ callee = "none"
  /\ callArg \in Batches(AgreeLineItems, MaxOrderItems)
  /\ callResult = <<>>

\* createFingerprint, verifyInvoice and calculateTotals on one record
ThreeTotalsCall ==
  /\ callee = "none"
  /\ callee' = "totals"
  /\ callResult' = [fingerprint |-> FingerprintTotal(callArg),
                    hash |-> createFingerprint(<<>>, OrderInvoice(callArg)).fp.hash,
                    verified |-> VerifiedTotal(callArg),
                    rows |-> RowsTotal(callArg)]
  /\ UNCHANGED <<callArg, exceptCall>>

AgreeNext == ThreeTotalsCall

SpecAgree == AgreeInit /\ [][AgreeNext]_vars

\* C28: the total in the fingerprint of a record, the calculatedTotal of
\* verifyInvoice and the total calculateTotals gives for its invoice number
\* are equal, and a record with the same verified total (and the same
\* number, contact name and date) has the same fingerprint
C28_ThreeTotalsAgree ==
  callee = "totals" =>
    /\ callResult.verified = callResult.rows
    /\ callResult.fingerprint = toFixed2(100 * callResult.verified)
    /\ \A other \in Batches(AgreeLineItems, MaxOrderItems) :
         VerifiedTotal(other) = callResult.verified =>
           createFingerprint(<<>>, OrderInvoice(other)).fp.hash = callResult.hash


(***************************************************************************)
(* Specification SpecParser: the InvoiceParser of the main process parses  *)
(* one document after the other.  An array is held by its position among   *)
(* the arrays created; a record refers to its warnings by that position.   *)
(***************************************************************************)
\* a clearing of the array in place, which keeps the array of the records
\* returned before
NewWarnings_ClearInPlace(arrays, current) ==
  [ref |-> current, arrays |-> [arrays EXCEPT ![current] = <<>>]]

\* this.warnings = []: a new array
NewWarnings(arrays, current) ==
  [ref |-> Len(arrays) + 1, arrays |-> Append(arrays, <<>>)]

\* a text with every field, a text with none, a text with a number and a
\* total only
TextComplete ==
  [invoiceNumber |-> <<<<<<"A", "1">>>>, NoMatch, NoMatch, NoMatch>>,
   invoiceDate |-> <<<<<<"5", "/", "3", "/", "2", "4">>>>, NoMatch, NoMatch>>,
   dueDate |-> <<NoMatch, <<<<"1", "5", ".", "0", "4", ".", "2", "0", "2", "4">>>>, NoMatch>>,
   contactName |-> <<NoMatch, <<<<"A", "c", "m", "e", " ">>>>>>,
   reference |-> <<<<<<"P", "O", "1">>>>, NoMatch>>,
   lineMatches |-> <<LineItem(<<"A">>, 200, 1050)>>,
   tableItems |-> <<>>,
   total |-> <<NoMatch, NoMatch, NoMatch>>]

TextBare ==
  [invoiceNumber |-> <<NoMatch, NoMatch, NoMatch, NoMatch>>,
   invoiceDate |-> <<NoMatch, NoMatch, NoMatch>>,
   dueDate |-> <<NoMatch, NoMatch, NoMatch>>,
   contactName |-> <<NoMatch, NoMatch>>,
   reference |-> <<NoMatch, NoMatch>>,
   lineMatches |-> <<>>,
   tableItems |-> <<>>,
   total |-> <<NoMatch, NoMatch, NoMatch>>]

TextTotalOnly ==
  [TextBare EXCEPT
     !.invoiceNumber = <<NoMatch, NoMatch, NoMatch, <<<<"7">>>>>>,
     !.total = <<NoMatch, <<<<"1", ",", "1", "5", "0", ".", "0", "0">>>>, NoMatch>>]

ParserTexts == {TextComplete, TextBare, TextTotalOnly}

ParserInit ==
  /\ EngineIdle
  /\ NoCall

\* invoiceParser.parseInvoiceText(text, pdf.fileName) in the loop of
\* 'process-pdfs': the call runs to its end without a pause; every push of
\* the call goes to the array this.warnings refers to, and the record
\* returned refers to that array
ParseDocument ==
  \E text \in ParserTexts :
    LET fresh == NewWarnings(warningArrays, parserWarnings)
        returned == parseInvoiceText(text, <<"a">>).invoice
    IN  /\ Len(parsedRecords) < MaxDocuments
        /\ parserWarnings' = fresh.ref
        /\ warningArrays' =
             [fresh.arrays EXCEPT ![fresh.ref] = @ \o returned.warnings]
        /\ parsedRecords' =
             Append(parsedRecords,
                    [text |-> text,
                     invoice |-> [returned EXCEPT !.warnings = fresh.ref]])
        /\ UNCHANGED exceptParser

ParserNext == ParseDocument

SpecParser == ParserInit /\ [][ParserNext]_vars

\* the warnings a record returned holds now
WarningsOf(record) == warningArrays[record.invoice.warnings]

\* C29: at every moment the warnings of every record returned by the one
\* parser are exactly the warnings raised while its own text was parsed,
\* whatever was parsed after it
C29_WarningsStayWithTheirRecord ==
  \A i \in 1..Len(parsedRecords) :
    WarningsOf(parsedRecords[i])
      = parseInvoiceText(parsedRecords[i].text, <<"a">>).invoice.warnings

\* a text with warnings was parsed, then a text without: the first record
\* has its warnings and the second has none
C29_Witness ==
  /\ Len(parsedRecords) >= 2
  /\ parsedRecords[1].text = TextBare
  /\ parsedRecords[2].text = TextComplete
  /\ Len(WarningsOf(parsedRecords[1])) = 5
  /\ WarningsOf(parsedRecords[2]) = <<>>


(***************************************************************************)
(* Specification SpecOverlap: two 'process-pdfs' invocations on the one    *)
(* OCREngine.  A handler runs until its next await; the steps of the two   *)
(* interleave at the awaits.  A worker is held by its position among the   *)
(* workers created.                                                        *)
(***************************************************************************)
OverlapInit ==
  /\ EngineIdle
  /\ NoCall

\* the renderer invokes 'process-pdfs'; the handler reaches
\* await ocrEngine.initialize()
StartInvocation(i) ==
  \E scans \in 0..MaxScans :
    /\ invPc[i] = "idle"
    /\ invPc' = [invPc EXCEPT ![i] = "initialize"]
    /\ invScans' = [invScans EXCEPT ![i] = scans]
    /\ UNCHANGED <<ocrWorker, workerState, invWorker, invErrors, exceptOcr>>

\* initialize() called by the handler: if (!this.worker) it awaits
\* createWorker, else it returns; loadPDFs follows
InitializeCheck(i) ==
  /\ invPc[i] = "initialize"
  /\ invPc' = [invPc EXCEPT ![i] = IF ocrWorker = 0 THEN "creating" ELSE "loop"]
  /\ UNCHANGED <<ocrWorker, workerState, invScans, invWorker, invErrors,
                 exceptOcr>>

\* createWorker resolves: this.worker = the new worker
WorkerCreated(i) ==
  /\ invPc[i] \in {"creating", "recreating"}
  /\ workerState' = Append(workerState, "alive")
  /\ ocrWorker' = Len(workerState) + 1
  /\ invPc' = [invPc EXCEPT
                 ![i] = IF invPc[i] = "creating" THEN "loop" ELSE "recognizeCheck"]
  /\ UNCHANGED <<invScans, invWorker, invErrors, exceptOcr>>

\* createWorker rejects: in the handler's initialize the outer catch leads
\* to finally; in recognizeImage the catch of the loop records the document
CreateWorkerFails(i) ==
  /\ invPc[i] \in {"creating", "recreating"}
  /\ invPc' = [invPc EXCEPT
                 ![i] = IF invPc[i] = "creating" THEN "finally" ELSE "loop"]
  /\ invErrors' = [invErrors EXCEPT ![i] = @ + 1]
  /\ invScans' = [invScans EXCEPT
                    ![i] = IF invPc[i] = "creating" THEN @ ELSE @ - 1]
  /\ UNCHANGED <<ocrWorker, workerState, invWorker, exceptOcr>>

\* the loop: the next scanned document goes to extractTextFromScannedPDF,
\* which converts it and calls recognizeImage; after the last, finally
NextDocument(i) ==
  /\ invPc[i] = "loop"
  /\ invPc' = [invPc EXCEPT
                 ![i] = IF invScans[i] > 0 THEN "recognizeInit" ELSE "finally"]
  /\ UNCHANGED <<ocrWorker, workerState, invScans, invWorker, invErrors,
                 exceptOcr>>

\* recognizeImage: await this.initialize()
RecognizeInitialize(i) ==
  /\ invPc[i] = "recognizeInit"
  /\ invPc' = [invPc EXCEPT
                 ![i] = IF ocrWorker = 0 THEN "recreating" ELSE "recognizeCheck"]
  /\ UNCHANGED <<ocrWorker, workerState, invScans, invWorker, invErrors,
                 exceptOcr>>

\* recognizeImage after the await: if (!this.worker) throw, which the catch
\* of the loop records; else await this.worker.recognize(imagePath)
RecognizeCheck(i) ==
  /\ invPc[i] = "recognizeCheck"
  /\ IF ocrWorker = 0
       THEN /\ invErrors' = [invErrors EXCEPT ![i] = @ + 1]
            /\ invScans' = [invScans EXCEPT ![i] = @ - 1]
            /\ invPc' = [invPc EXCEPT ![i] = "loop"]
            /\ UNCHANGED invWorker
       ELSE /\ invWorker' = [invWorker EXCEPT ![i] = ocrWorker]
            /\ invPc' = [invPc EXCEPT ![i] = "recognizing"]
            /\ UNCHANGED <<invErrors, invScans>>
  /\ UNCHANGED <<ocrWorker, workerState, exceptOcr>>

\* worker.recognize settles: with the text if the worker is alive, with a
\* rejection the catch of the loop records if it was terminated
RecognizeSettles(i) ==
  /\ invPc[i] = "recognizing"
  /\ invErrors' = [invErrors EXCEPT
                     ![i] = IF workerState[invWorker[i]] = "alive" THEN @ ELSE @ + 1]
  /\ invScans' = [invScans EXCEPT ![i] = @ - 1]
  /\ invPc' = [invPc EXCEPT ![i] = "loop"]
  /\ UNCHANGED <<ocrWorker, workerState, invWorker, exceptOcr>>

\* finally: terminate(): if (this.worker) await this.worker.terminate()
TerminateCall(i) ==
  /\ invPc[i] = "finally"
  /\ IF ocrWorker # 0
       THEN /\ workerState' = [workerState EXCEPT ![ocrWorker] = "terminated"]
            /\ invPc' = [invPc EXCEPT ![i] = "terminating"]
       ELSE /\ invPc' = [invPc EXCEPT ![i] = "done"]
            /\ UNCHANGED workerState
  /\ UNCHANGED <<ocrWorker, invScans, invWorker, invErrors, exceptOcr>>

\* worker.terminate() resolves: this.worker = null; the handler returns
TerminateReturns(i) ==
  /\ invPc[i] = "terminating"
  /\ ocrWorker' = 0
  /\ invPc' = [invPc EXCEPT ![i] = "done"]
  /\ UNCHANGED <<workerState, invScans, invWorker, invErrors, exceptOcr>>

OverlapNext ==
  \E i \in Invocations :
    \/ StartInvocation(i)
    \/ InitializeCheck(i)
    \/ WorkerCreated(i)
    \/ CreateWorkerFails(i)
    \/ NextDocument(i)
    \/ RecognizeInitialize(i)
    \/ RecognizeCheck(i)
    \/ RecognizeSettles(i)
    \/ TerminateCall(i)
    \/ TerminateReturns(i)

SpecOverlap == OverlapInit /\ [][OverlapNext]_vars

\* the invocation is in its loop with a scanned document still to recognize
StillNeedsWorker(i) ==
  /\ invPc[i] \in {"loop", "recognizeInit", "recognizeCheck", "recognizing"}
  /\ invScans[i] > 0

\* C30: while an invocation still has a scanned document to recognize the
\* worker of the engine is there and alive, a worker is alive while a
\* recognize runs on it, and once both invocations have finished the worker
\* of the engine is null
C30_WorkerOutlivesItsUsers ==
  /\ \A i \in Invocations :
       StillNeedsWorker(i) => ocrWorker # 0 /\ workerState[ocrWorker] = "alive"
  /\ \A i \in Invocations :
       invPc[i] = "recognizing" => workerState[invWorker[i]] = "alive"
  /\ (\A i \in Invocations : invPc[i] = "done") => ocrWorker = 0

====
